---- MODULE Spec2Model ----
(***************************************************************************)
(* Message board back end of the template: the `send`, `remove`,           *)
(* `deleteAny` and `exampleCreateMessage` mutations over the `messages`    *)
(* table, the token-bucket rate limiter configured by RATE_LIMIT_DEFS, the *)
(* `withRateLimit` middleware, the `users.isAdmin` query and the           *)
(* `users.setAdminByEmail` mutation, and the `_authenticated` layout       *)
(* route of the front end.                                                 *)
(*                                                                         *)
(* Strings are sequences of one-character strings, so that trim() and      *)
(* length are computed and not assumed.  Token levels are kept multiplied  *)
(* by the definition's period, which makes the continuous refill           *)
(* `elapsed * rate / period` exact integer arithmetic.                     *)
(***************************************************************************)
EXTENDS Integers, Sequences, FiniteSets, TLC

VARIABLES
    messages,   \* the `messages` table: a set of documents
    nextId,     \* the next document id the store hands out
    buckets,    \* rate limiter state: <<name, key>> -> [value, ts]
    now,        \* wall clock in ms (frozen during one mutation)
    pc,         \* position of the mutation being executed
    req,        \* the mutation being executed / last executed, with its locals
    keysUsed,   \* history: <<principal id, key>> pairs handed to the limiter by send
    createdBy,  \* history: document id -> name of the mutation that inserted it
    operation,  \* the operation name captured by the withRateLimit closure
    handled,    \* key -> number of runs of the handler withRateLimit wraps
    roles,      \* the auth component's user table: user id -> role field
    nav,        \* the browser: where the visitor is and what the router rendered
    parked,     \* invocations suspended at an await: [pc, req] -> how many
    guard,      \* a mounted route guard: its props, what its hooks return, its output
    toggle,     \* the page's theme: localStorage, the OS preference, <html>'s class, ThemeToggle
    upload,     \* FilesPage: its state, the file input, runs of handleUpload, storage and `files`
    page        \* the auth client: calls of signOut, what ran on their completion

\* the state of the React components and of the page they live in
front == <<guard, toggle, upload, page>>

vars == <<messages, nextId, buckets, now, pc, req, keysUsed, createdBy, operation, handled, roles, nav, parked, front>>

----------------------------------------------------------------------------
(* Bounds *)

MaxInserts == 1         \* documents ever inserted in the pipeline specification
MaxBurstInserts == 17   \* documents ever inserted in the quota specification
MaxHandled == 82        \* runs of the wrapped handler per key in the quota specification
MaxSharedInserts == 3   \* documents ever inserted in the partition specification
MaxSharedHandled == 16  \* runs of the wrapped handler per key in the partition specification
MaxWrappedHandled == 4  \* runs of the wrapped handler per key in the middleware specification
MaxCookies == 2         \* cookies in the jar in the routes specification
MaxVisits == 2          \* navigations in the routes specification
MaxClicks == 4          \* clicks on the theme toggle in the theme specification
MaxOsChanges == 2       \* changes of the OS colour scheme in the theme specification
MaxUploads == 2         \* runs of handleUpload that pass the size check in the files specification
MaxSignOuts == 2        \* calls of signOut in the sign-out specification
MaxAdminInserts == 1    \* documents ever inserted in the admin specification
MaxStoreInserts == 2    \* documents ever inserted in the store specification
MaxRangeInserts == 2    \* documents ever inserted in the ranges specification
MaxConcurrent == 3      \* invocations in flight at once in the concurrency specification
MaxRacedInserts == 17   \* documents ever inserted in the concurrency specification
MaxHalfWindows == 3     \* half periods the clock advances in the refill specification
MaxRefillInserts == 31  \* documents ever inserted in the refill specification
MaxRefillHandled == 171 \* runs of the wrapped handler per key in the refill specification

----------------------------------------------------------------------------
(* Values *)

Undefined == "undefined"    \* JS undefined (an absent optional field)

Min(a, b) == IF a <= b THEN a ELSE b

Str(ch, n) == [i \in 1..n |-> ch]

\* characters String.prototype.trim() strips (representatives of WhiteSpace
\* and LineTerminator)
WhiteSpace == {" ", "\t", "\n"}

hello == <<"h", "e", "l", "l", "o">>
ok == <<"o", "k">>

\* the principals the identity provider knows; _id is a document id of the
\* auth component's user table: a non-empty opaque string
Users ==
    { [_id |-> "u1", name |-> "Ann"],
      [_id |-> "u2", name |-> ""] }

\* `null`: optional chaining (user?._id, user?.name) reads undefined from it
NoUser == [_id |-> Undefined, name |-> Undefined]

u1 == CHOOSE u \in Users : u._id = "u1"
u2 == CHOOSE u \in Users : u._id = "u2"

\* every account of the auth component's user table
Accounts ==
    Users \cup
    { [_id |-> "u3", name |-> "Cy"],
      [_id |-> "u4", name |-> "Di"] }

at == <<"@">>
annEmail == <<"a">> \o at \o <<"x">>
bobEmail == <<"b">> \o at \o <<"x">>
cyEmail == <<"c">> \o at \o <<"x">>

\* the email field of the accounts; u4 has none (undefined and '' are both
\* falsy, and are both the empty sequence here)
EmailOf(id) ==
    CASE id = "u1" -> annEmail
      [] id = "u2" -> bobEmail
      [] id = "u3" -> cyEmail
      [] OTHER -> <<>>

\* ROLES and ADMIN_EMAILS of convex/lib/config.ts
ROLES == [ADMIN |-> "admin", USER |-> "user"]
ADMIN_EMAILS == {cyEmail}

\* no invocation is suspended
NoneParked == [i \in {} |-> 0]

\* a browser that has not been anywhere yet: no cookie, no session, the
\* home page shown
FreshBrowser ==
    [jar |-> <<>>, session |-> FALSE, env |-> "client",
     asked |-> "/", at |-> "/", shown |-> "Home", visits |-> 0]

\* no route guard is mounted
NoGuard ==
    [component |-> "none", redirectTo |-> "/", fallback |-> Undefined,
     session |-> [data |-> [user |-> NoUser], isPending |-> TRUE],
     admin |-> [isAdmin |-> Undefined, isLoading |-> TRUE],
     out |-> [kind |-> "none", to |-> Undefined, node |-> Undefined]]

\* no page is loaded: nothing stored under 'theme-preference', <html> without class
NoPage ==
    [phase |-> "none", loaded |-> Undefined, stored |-> Undefined, prefersDark |-> FALSE,
     dark |-> FALSE, theme |-> "system", queued |-> Undefined, effects |-> "none",
     listening |-> FALSE, clicks |-> 0, changes |-> 0]

\* FilesPage as first rendered: nothing chosen, nothing in flight, nothing stored
NoUpload ==
    [isUploading |-> FALSE, uploadProgress |-> "", input |-> "", toast |-> "",
     runs |-> <<>>, started |-> 0, calls |-> 0,
     storage |-> {}, files |-> {}, ended |-> {}]

\* signOut has not been called on this page
FreshPage ==
    [request |-> "idle", opts |-> [undefined |-> TRUE], passed |-> [undefined |-> TRUE],
     log |-> <<>>, calls |-> 0]

\* the role fields as deployed: u2 is an admin by role, u3 by the whitelist
InitRoles ==
    [id \in {u._id : u \in Accounts} |->
        CASE id = "u2" -> ROLES.ADMIN
          [] id = "u4" -> Undefined
          [] OTHER -> ROLES.USER]

\* what the request carries: a valid session of a user, no session, or a
\* session whose lookup raises
SessionOf(u) == [kind |-> "user", user |-> u]
NoSession == [kind |-> "none", user |-> NoUser]
BrokenSession == [kind |-> "throws", user |-> NoUser]
Sessions == {SessionOf(u) : u \in Users} \cup {NoSession, BrokenSession}

\* inputs of send in the pipeline specification
Contents ==
    { <<>>,
      <<" ">>,
      <<" ", "\t", "\n">>,
      hello,
      <<" ", " ">> \o ok \o <<" ", " ">>,
      <<"a", " ", "b">>,
      Str("a", 2001),
      <<"\n">> \o Str("a", 2000) \o <<" ", "\t">>,
      <<" ">> \o Str("a", 2001) \o <<" ">> }

----------------------------------------------------------------------------
(* Rate limiter *)

RateLimitNames ==
    {"sendMessage", "uploadFile", "deleteFile", "apiCall",
     "loginAttempt", "registerUser", "sendEmail"}

\* sendMessage with rate and capacity the wrong way round
RateLimitDefsSwapped ==
    [n \in RateLimitNames |->
        CASE n = "sendMessage"  -> [kind |-> "token bucket", rate |-> 15, period |-> 60000,   capacity |-> 10]
          [] n = "uploadFile"   -> [kind |-> "token bucket", rate |-> 5,  period |-> 60000,   capacity |-> 10]
          [] n = "deleteFile"   -> [kind |-> "token bucket", rate |-> 20, period |-> 60000,   capacity |-> 25]
          [] n = "apiCall"      -> [kind |-> "token bucket", rate |-> 60, period |-> 60000,   capacity |-> 80]
          [] n = "loginAttempt" -> [kind |-> "token bucket", rate |-> 5,  period |-> 60000,   capacity |-> 5]
          [] n = "registerUser" -> [kind |-> "token bucket", rate |-> 3,  period |-> 3600000, capacity |-> 3]
          [] n = "sendEmail"    -> [kind |-> "token bucket", rate |-> 10, period |-> 3600000, capacity |-> 10]]

RATE_LIMIT_DEFS ==
    [n \in RateLimitNames |->
        CASE n = "sendMessage"  -> [kind |-> "token bucket", rate |-> 10, period |-> 60000,   capacity |-> 15]
          [] n = "uploadFile"   -> [kind |-> "token bucket", rate |-> 5,  period |-> 60000,   capacity |-> 10]
          [] n = "deleteFile"   -> [kind |-> "token bucket", rate |-> 20, period |-> 60000,   capacity |-> 25]
          [] n = "apiCall"      -> [kind |-> "token bucket", rate |-> 60, period |-> 60000,   capacity |-> 80]
          [] n = "loginAttempt" -> [kind |-> "token bucket", rate |-> 5,  period |-> 60000,   capacity |-> 5]
          [] n = "registerUser" -> [kind |-> "token bucket", rate |-> 3,  period |-> 3600000, capacity |-> 3]
          [] n = "sendEmail"    -> [kind |-> "token bucket", rate |-> 10, period |-> 3600000, capacity |-> 10]]

\* One token, and a full bucket, in the unit the levels are kept in.
OneToken(name) == RATE_LIMIT_DEFS[name].period
FullBucket(name) == RATE_LIMIT_DEFS[name].capacity * RATE_LIMIT_DEFS[name].period

\* tokens never come back
LevelNoRefill(bs, name, key, t) ==
    IF <<name, key>> \in DOMAIN bs THEN bs[<<name, key>>].value ELSE FullBucket(name)

\* The level of <<name, key>> at time t: a bucket that was never written is
\* full; tokens come back at `rate` per `period`, never above `capacity`.
Level(bs, name, key, t) ==
    IF <<name, key>> \in DOMAIN bs
    THEN Min(bs[<<name, key>>].value + (t - bs[<<name, key>>].ts) * RATE_LIMIT_DEFS[name].rate,
             FullBucket(name))
    ELSE FullBucket(name)

\* the last token is never handed out
LimitOkStrict(bs, name, key, t) == Level(bs, name, key, t) > OneToken(name)

\* rateLimiter.limit(ctx, name, {key}): takes one token when there is one and
\* raises otherwise, leaving the bucket as it was.
LimitOk(bs, name, key, t) == Level(bs, name, key, t) >= OneToken(name)

\* one bucket per name: the key is ignored when the token is taken
LimitTakeAnyKey(bs, name, key, t) ==
    [p \in (DOMAIN bs) \cup {<<name, key>>} |->
        IF p[1] = name
        THEN [value |-> Level(bs, name, key, t) - OneToken(name), ts |-> t]
        ELSE bs[p]]

LimitTake(bs, name, key, t) ==
    [p \in (DOMAIN bs) \cup {<<name, key>>} |->
        IF p = <<name, key>>
        THEN [value |-> Level(bs, name, key, t) - OneToken(name), ts |-> t]
        ELSE bs[p]]

----------------------------------------------------------------------------
(* Helpers of the handlers *)

\* String.prototype.trim(): strips leading and trailing white space only
RECURSIVE TrimStart(_)
TrimStart(s) ==
    IF s = <<>> THEN s
    ELSE IF Head(s) \in WhiteSpace THEN TrimStart(Tail(s)) ELSE s

RECURSIVE TrimEnd(_)
TrimEnd(s) ==
    IF s = <<>> THEN s
    ELSE IF s[Len(s)] \in WhiteSpace THEN TrimEnd(SubSeq(s, 1, Len(s) - 1)) ELSE s

Trim(s) == TrimEnd(TrimStart(s))

\* a boundary slip: 2000 characters already count as too long
ValidateContentOffByOne(trimmed) ==
    IF Len(trimmed) = 0 THEN "Message cannot be empty"
    ELSE IF Len(trimmed) >= 2000 THEN "Message too long (max 2000 characters)"
    ELSE ""

\* the two content checks of send, in their order; "" when both pass
ValidateContent(trimmed) ==
    IF Len(trimmed) = 0 THEN "Message cannot be empty"
    ELSE IF Len(trimmed) > 2000 THEN "Message too long (max 2000 characters)"
    ELSE ""

\* authComponent.getAuthUser(ctx): the user of a valid session, null without
\* one; `threw` when the lookup raises
GetAuthUser(session) ==
    [threw |-> session.kind = "throws",
     user |-> IF session.kind = "user" THEN session.user ELSE NoUser]

\* let user = null; try { user = await getAuthUser(ctx) } catch {}
ResolveUser(session) ==
    IF GetAuthUser(session).threw THEN NoUser ELSE GetAuthUser(session).user

\* a JS value that `||` passes over
Falsy(x) == x \in {Undefined, ""}

\* one bucket for everybody
DeriveKeyShared(user) == "anonymous"

\* the display name used as the key
DeriveKeyByName(user) == IF Falsy(user.name) THEN "anonymous" ELSE user.name

\* user?._id || 'anonymous'
DeriveKey(user) == IF Falsy(user._id) THEN "anonymous" ELSE user._id

\* `||` in place of `??`: an empty display name becomes 'Anonymous'
AuthorNameOr(user) == IF Falsy(user.name) THEN "Anonymous" ELSE user.name

\* user?.name ?? 'Anonymous'
AuthorName(user) == IF user.name = Undefined THEN "Anonymous" ELSE user.name

\* the document send inserts
SendDoc(id, trimmed, user, t) ==
    [_id |-> id, content |-> trimmed, authorId |-> user._id,
     authorName |-> AuthorName(user), _creationTime |-> t]

\* requireAuth(ctx): the authenticated user, or raises
RequireAuth(session) ==
    [threw |-> GetAuthUser(session).threw \/ GetAuthUser(session).user = NoUser,
     user |-> GetAuthUser(session).user]

\* user.email && ADMIN_EMAILS.includes(user.email), else user.role === ROLES.ADMIN
HasAdminRights(user, rs) ==
    \/ EmailOf(user._id) # <<>> /\ EmailOf(user._id) \in ADMIN_EMAILS
    \/ rs[user._id] = ROLES.ADMIN

\* requireAdmin(ctx): the authenticated admin, or raises
RequireAdmin(session) ==
    IF RequireAuth(session).threw
    THEN [threw |-> TRUE, error |-> "Authentication required", user |-> NoUser]
    ELSE IF ~HasAdminRights(RequireAuth(session).user, roles)
    THEN [threw |-> TRUE, error |-> "Admin access required", user |-> RequireAuth(session).user]
    ELSE [threw |-> FALSE, error |-> "", user |-> RequireAuth(session).user]

NewRequest(op, session, content, id) ==
    [op |-> op, session |-> session, content |-> content, id |-> id,
     trimmed |-> <<>>, user |-> NoUser, key |-> Undefined,
     stages |-> <<>>, outcome |-> "pending", at |-> now, getKey |-> "none"]

Finish(r, outcome) == [r EXCEPT !.outcome = outcome]

Stage(r, name) == [r EXCEPT !.stages = Append(@, name)]

----------------------------------------------------------------------------
(* messages.send, one action per statement group *)

\* the content checks left for after the gate
SendStartSkipsValidation(session, content) ==
    /\ pc = "ready"
    /\ pc' = "resolve"
    /\ req' = [NewRequest("send", session, content, 0) EXCEPT !.trimmed = Trim(content)]
    /\ UNCHANGED <<messages, nextId, buckets, now, keysUsed, createdBy, operation, handled, roles, nav, parked, front>>

\* the request arrives
SendStart(session, content) ==
    /\ pc = "ready"
    /\ pc' = "validate"
    /\ req' = NewRequest("send", session, content, 0)
    /\ UNCHANGED <<messages, nextId, buckets, now, keysUsed, createdBy, operation, handled, roles, nav, parked, front>>

\* the limiter called ahead of the content checks: a call with bad content
\* has paid a token when it is turned away
SendValidateCharged ==
    /\ pc = "validate"
    /\ LET trimmed == Trim(req.content)
           r == [Stage(req, "validate") EXCEPT !.trimmed = trimmed]
           key == DeriveKey(ResolveUser(req.session))
       IN  IF ValidateContent(trimmed) # ""
           THEN /\ req' = Finish(r, ValidateContent(trimmed))
                /\ pc' = "ready"
                /\ buckets' = IF LimitOk(buckets, "sendMessage", key, now)
                              THEN LimitTake(buckets, "sendMessage", key, now)
                              ELSE buckets
           ELSE /\ req' = r
                /\ pc' = "resolve"
                /\ buckets' = buckets
    /\ UNCHANGED <<messages, nextId, now, keysUsed, createdBy, operation, handled, roles, nav, parked, front>>

\* const trimmed = args.content.trim(); the two length checks
SendValidate ==
    /\ pc = "validate"
    /\ LET trimmed == Trim(req.content)
           r == [Stage(req, "validate") EXCEPT !.trimmed = trimmed]
       IN  IF ValidateContent(trimmed) # ""
           THEN /\ req' = Finish(r, ValidateContent(trimmed))
                /\ pc' = "ready"
           ELSE /\ req' = r
                /\ pc' = "resolve"
    /\ UNCHANGED <<messages, nextId, buckets, now, keysUsed, createdBy, operation, handled, roles, nav, parked, front>>

\* getAuthUser without the try / catch
SendResolveNoCatch ==
    /\ pc = "resolve"
    /\ IF GetAuthUser(req.session).threw
       THEN /\ req' = Finish(Stage(req, "resolve"), "Unauthenticated")
            /\ pc' = "ready"
       ELSE /\ req' = [Stage(req, "resolve") EXCEPT !.user = GetAuthUser(req.session).user]
            /\ pc' = "derive"
    /\ UNCHANGED <<messages, nextId, buckets, now, keysUsed, createdBy, operation, handled, roles, nav, parked, front>>

\* the try / catch around getAuthUser
SendResolve ==
    /\ pc = "resolve"
    /\ req' = [Stage(req, "resolve") EXCEPT !.user = ResolveUser(req.session)]
    /\ pc' = "derive"
    /\ UNCHANGED <<messages, nextId, buckets, now, keysUsed, createdBy, operation, handled, roles, nav, parked, front>>

\* const rateLimitKey = user?._id || 'anonymous'
SendDerive ==
    /\ pc = "derive"
    /\ req' = [Stage(req, "derive") EXCEPT !.key = DeriveKey(req.user)]
    /\ pc' = "gate"
    /\ UNCHANGED <<messages, nextId, buckets, now, keysUsed, createdBy, operation, handled, roles, nav, parked, front>>

\* the limiter state kept in a Map of the invocation: always fresh, never
\* persisted
SendGateInMemory ==
    /\ pc = "gate"
    /\ keysUsed' = keysUsed \cup {<<req.user._id, req.key>>}
    /\ buckets' = buckets
    /\ req' = Stage(req, "gate")
    /\ pc' = "commit"
    /\ UNCHANGED <<messages, nextId, now, createdBy, operation, handled, roles, nav, parked, front>>

\* the insert placed ahead of the limiter: a rejected call has already stored
SendGateAfterInsert ==
    /\ pc = "gate"
    /\ keysUsed' = keysUsed \cup {<<req.user._id, req.key>>}
    /\ IF LimitOk(buckets, "sendMessage", req.key, now)
       THEN /\ buckets' = LimitTake(buckets, "sendMessage", req.key, now)
            /\ req' = Stage(req, "gate")
            /\ pc' = "commit"
            /\ UNCHANGED <<messages, nextId, createdBy>>
       ELSE /\ buckets' = buckets
            /\ req' = Finish(Stage(req, "gate"), "RateLimited")
            /\ pc' = "ready"
            /\ messages' = messages \cup {SendDoc(nextId, req.trimmed, req.user, now)}
            /\ createdBy' = createdBy @@ (nextId :> "send")
            /\ nextId' = nextId + 1
    /\ UNCHANGED <<now, operation, handled, roles, nav, parked, front>>

\* await rateLimiter.limit(ctx, 'sendMessage', { key: rateLimitKey })
SendGate ==
    /\ pc = "gate"
    /\ keysUsed' = keysUsed \cup {<<req.user._id, req.key>>}
    /\ IF LimitOk(buckets, "sendMessage", req.key, now)
       THEN /\ buckets' = LimitTake(buckets, "sendMessage", req.key, now)
            /\ req' = Stage(req, "gate")
            /\ pc' = "commit"
       ELSE /\ buckets' = buckets
            /\ req' = Finish(Stage(req, "gate"), "RateLimited")
            /\ pc' = "ready"
    /\ UNCHANGED <<messages, nextId, now, createdBy, operation, handled, roles, nav, parked, front>>

\* the author's earlier message patched in place of an insert
SendCommitPatches ==
    /\ pc = "commit"
    /\ LET mine == {m \in messages : m.authorId = req.user._id}
       IN  IF mine = {}
           THEN /\ messages' = messages \cup {SendDoc(nextId, req.trimmed, req.user, now)}
                /\ createdBy' = createdBy @@ (nextId :> "send")
                /\ nextId' = nextId + 1
                /\ req' = [Finish(Stage(req, "commit"), "ok") EXCEPT !.id = nextId]
           ELSE /\ messages' = (messages \ mine) \cup {[m EXCEPT !.content = req.trimmed] : m \in mine}
                /\ UNCHANGED <<createdBy, nextId>>
                /\ req' = Finish(Stage(req, "commit"), "ok")
    /\ pc' = "ready"
    /\ UNCHANGED <<buckets, now, keysUsed, operation, handled, roles, nav, parked, front>>

\* return await ctx.db.insert('messages', {...})
SendCommit ==
    /\ pc = "commit"
    /\ messages' = messages \cup {SendDoc(nextId, req.trimmed, req.user, now)}
    /\ createdBy' = createdBy @@ (nextId :> "send")
    /\ nextId' = nextId + 1
    /\ req' = [Finish(Stage(req, "commit"), "ok") EXCEPT !.id = nextId]
    /\ pc' = "ready"
    /\ UNCHANGED <<buckets, now, keysUsed, operation, handled, roles, nav, parked, front>>

----------------------------------------------------------------------------
(* messages.remove and the Factory example mutation: one transaction each *)

Get(id) == {m \in messages : m._id = id}

\* remove without the author check
RemoveAnyAuthor(session, id) ==
    /\ pc = "ready"
    /\ pc' = "ready"
    /\ LET auth == RequireAuth(session)
           r == [NewRequest("remove", session, <<>>, id) EXCEPT !.user = auth.user]
       IN  IF auth.threw
           THEN /\ req' = Finish(r, "Authentication required")
                /\ messages' = messages
           ELSE IF Get(id) = {}
           THEN /\ req' = Finish(r, "Message not found")
                /\ messages' = messages
           ELSE /\ req' = Finish(r, "ok")
                /\ messages' = messages \ Get(id)
    /\ UNCHANGED <<nextId, buckets, now, keysUsed, createdBy, operation, handled, roles, nav, parked, front>>

Remove(session, id) ==
    /\ pc = "ready"
    /\ pc' = "ready"
    /\ LET auth == RequireAuth(session)
           r == [NewRequest("remove", session, <<>>, id) EXCEPT !.user = auth.user]
       IN  IF auth.threw
           THEN /\ req' = Finish(r, "Authentication required")
                /\ messages' = messages
           ELSE IF Get(id) = {}
           THEN /\ req' = Finish(r, "Message not found")
                /\ messages' = messages
           ELSE IF (CHOOSE m \in Get(id) : TRUE).authorId # auth.user._id
           THEN /\ req' = Finish(r, "Not authorized to delete this message")
                /\ messages' = messages
           ELSE /\ req' = Finish(r, "ok")
                /\ messages' = messages \ Get(id)
    /\ UNCHANGED <<nextId, buckets, now, keysUsed, createdBy, operation, handled, roles, nav, parked, front>>

\* requireAuth in the place of requireAdmin
DeleteAnyUser(session, id) ==
    /\ pc = "ready"
    /\ pc' = "ready"
    /\ LET auth == RequireAuth(session)
           r == [NewRequest("deleteAny", session, <<>>, id) EXCEPT !.user = auth.user]
       IN  IF auth.threw
           THEN /\ req' = Finish(r, "Authentication required")
                /\ messages' = messages
           ELSE IF Get(id) = {}
           THEN /\ req' = Finish(r, "Message not found")
                /\ messages' = messages
           ELSE /\ req' = Finish(r, "ok")
                /\ messages' = messages \ Get(id)
    /\ UNCHANGED <<nextId, buckets, now, keysUsed, createdBy, operation, handled, roles, nav, parked, front>>

\* await requireAdmin(ctx); get; 'Message not found'; delete
DeleteAny(session, id) ==
    /\ pc = "ready"
    /\ pc' = "ready"
    /\ LET adm == RequireAdmin(session)
           r == [NewRequest("deleteAny", session, <<>>, id) EXCEPT !.user = adm.user]
       IN  IF adm.threw
           THEN /\ req' = Finish(r, adm.error)
                /\ messages' = messages
           ELSE IF Get(id) = {}
           THEN /\ req' = Finish(r, "Message not found")
                /\ messages' = messages
           ELSE /\ req' = Finish(r, "ok")
                /\ messages' = messages \ Get(id)
    /\ UNCHANGED <<nextId, buckets, now, keysUsed, createdBy, operation, handled, roles, nav, parked, front>>

\* args: { content: v.string(), authorId: v.string() }; no check beyond the types
ExampleCreateMessage(content, authorId) ==
    /\ pc = "ready"
    /\ pc' = "ready"
    /\ messages' = messages \cup
            {[_id |-> nextId, content |-> content, authorId |-> authorId,
              authorName |-> Undefined, _creationTime |-> now]}
    /\ createdBy' = createdBy @@ (nextId :> "exampleCreateMessage")
    /\ nextId' = nextId + 1
    /\ req' = [Finish(NewRequest("exampleCreateMessage", NoSession, content, nextId), "ok")
                  EXCEPT !.key = authorId]
    /\ UNCHANGED <<buckets, now, keysUsed, operation, handled, roles, nav, parked, front>>

----------------------------------------------------------------------------
(* Date range queries: MessageRepository.findInDateRange (Repository.ts) and
   QueryFactory.dateRange (Factory.ts) over the messages table *)

\* .filter(q => q.or(q.gte(_creationTime, startTime), q.lte(_creationTime, endTime)))
FindInDateRange(ms, startTime, endTime) ==
    {m \in ms : m._creationTime >= startTime \/ m._creationTime <= endTime}

\* .filter(q => q.and(q.gte(_creationTime, startTime), q.lte(_creationTime, endTime)))
DateRange(ms, startTime, endTime) ==
    {m \in ms : m._creationTime >= startTime /\ m._creationTime <= endTime}

\* a finished query with its arguments and the documents it collected
Answer(op, startTime, endTime, docs) ==
    Finish(NewRequest(op, NoSession, <<>>, 0), "ok")
        @@ [startTime |-> startTime, endTime |-> endTime, result |-> docs]

QueryFindInDateRange(startTime, endTime) ==
    /\ pc = "ready"
    /\ req' = Answer("findInDateRange", startTime, endTime,
                     FindInDateRange(messages, startTime, endTime))
    /\ UNCHANGED <<messages, nextId, buckets, now, pc, keysUsed, createdBy, operation, handled, roles, nav, parked, front>>

QueryDateRange(startTime, endTime) ==
    /\ pc = "ready"
    /\ req' = Answer("dateRange", startTime, endTime,
                     DateRange(messages, startTime, endTime))
    /\ UNCHANGED <<messages, nextId, buckets, now, pc, keysUsed, createdBy, operation, handled, roles, nav, parked, front>>

----------------------------------------------------------------------------
(* users.isAdmin and users.setAdminByEmail *)

Includes(s, sub) == \E i \in 1..(Len(s) - Len(sub) + 1) : SubSeq(s, i, i + Len(sub) - 1) = sub

\* the query: getAuthUser is awaited outside any try / catch
IsAdmin(session) ==
    /\ pc = "ready"
    /\ pc' = "ready"
    /\ LET auth == GetAuthUser(session)
           r == [NewRequest("isAdmin", session, <<>>, 0) EXCEPT !.user = auth.user]
       IN  req' = Finish(r, IF auth.threw THEN "Unauthenticated"
                            ELSE IF auth.user = NoUser THEN "false"
                            ELSE IF HasAdminRights(auth.user, roles) THEN "true"
                            ELSE "false")
    /\ UNCHANGED <<messages, nextId, buckets, now, keysUsed, createdBy, operation, handled, roles, nav, parked, front>>

\* the role of the account with that email written, as the name promises
SetAdminByEmailWrites(session, email, isAdmin) ==
    /\ pc = "ready"
    /\ pc' = "ready"
    /\ LET r == [NewRequest("setAdminByEmail", session, email, 0)
                    EXCEPT !.key = IF isAdmin THEN "grant" ELSE "revoke"]
       IN  IF email = <<>> \/ ~Includes(email, at)
           THEN /\ req' = Finish(r, "Invalid email address")
                /\ roles' = roles
           ELSE /\ req' = Finish(r, "success")
                /\ roles' = [id \in DOMAIN roles |->
                                IF EmailOf(id) = email
                                THEN (IF isAdmin THEN ROLES.ADMIN ELSE ROLES.USER)
                                ELSE roles[id]]
    /\ UNCHANGED <<messages, nextId, buckets, now, keysUsed, createdBy, operation, handled, nav, parked, front>>

\* the handler never reads _ctx: the email check, the log line and the
\* returned instruction; `action` is kept in the key field of the request
SetAdminByEmail(session, email, isAdmin) ==
    /\ pc = "ready"
    /\ pc' = "ready"
    /\ LET r == [NewRequest("setAdminByEmail", session, email, 0)
                    EXCEPT !.key = IF isAdmin THEN "grant" ELSE "revoke"]
       IN  req' = Finish(r, IF email = <<>> \/ ~Includes(email, at)
                            THEN "Invalid email address"
                            ELSE "success")
    /\ UNCHANGED <<messages, nextId, buckets, now, keysUsed, createdBy, operation, handled, roles, nav, parked, front>>

----------------------------------------------------------------------------
(* The _authenticated layout route and its children *)

betterAuth == <<"b", "e", "t", "t", "e", "r", "-", "a", "u", "t", "h">>

\* the cookie the auth client keeps for a session, a cookie that has nothing
\* to do with sessions, and one of another script that carries the text
sessionCookie == betterAuth \o <<".", "s", "=", "1">>
themeCookie == <<"t", "=", "d">>
strayCookie == <<"r", "=">> \o betterAuth

Cookies == {sessionCookie, themeCookie, strayCookie}

\* document.cookie: the cookies of the jar joined by "; "
RECURSIVE DocumentCookie(_)
DocumentCookie(jar) ==
    IF jar = <<>> THEN <<>>
    ELSE IF Len(jar) = 1 THEN jar[1]
    ELSE jar[1] \o <<";", " ">> \o DocumentCookie(Tail(jar))

InJar(c) == \E i \in 1..Len(nav.jar) : nav.jar[i] = c

Without(jar, c) == SelectSeq(jar, LAMBDA x : x # c)

\* createFileRoute paths below the layout, and their components
ProtectedRoutes == {"/_authenticated/dashboard", "/_authenticated/files"}

ComponentOf(route) ==
    CASE route = "/_authenticated/dashboard" -> "Dashboard"
      [] route = "/_authenticated/files" -> "FilesPage"
      [] OTHER -> "Home"

\* typeof window !== 'undefined' && document.cookie.includes('better-auth')
IsAuthenticated(env, jar) == env = "client" /\ Includes(DocumentCookie(jar), betterAuth)

\* the router loads a route: beforeLoad of the layout runs for its children
\* and throws redirect({ to: '/' }); otherwise <Outlet /> renders the child
Navigate(env, to) ==
    /\ nav.visits < MaxVisits
    /\ nav' = IF to \in ProtectedRoutes /\ ~IsAuthenticated(env, nav.jar)
              THEN [nav EXCEPT !.env = env, !.asked = to, !.at = "/", !.shown = "Home",
                               !.visits = @ + 1]
              ELSE [nav EXCEPT !.env = env, !.asked = to, !.at = to, !.shown = ComponentOf(to),
                               !.visits = @ + 1]
    /\ UNCHANGED <<messages, nextId, buckets, now, pc, req, keysUsed, createdBy, operation, handled, roles, parked, front>>

\* the visitor signs in: the session exists, and its cookie is in the jar
\* when scripts may read it
SignIn(readable) ==
    /\ ~nav.session
    /\ readable => InJar(sessionCookie) \/ Len(nav.jar) < MaxCookies
    /\ nav' = [nav EXCEPT !.session = TRUE,
                          !.jar = IF readable /\ ~InJar(sessionCookie)
                                  THEN Append(@, sessionCookie) ELSE @]
    /\ UNCHANGED <<messages, nextId, buckets, now, pc, req, keysUsed, createdBy, operation, handled, roles, parked, front>>

\* the session ends on the server (expiry, revocation): the jar is as it was
SessionEnds ==
    /\ nav.session
    /\ nav' = [nav EXCEPT !.session = FALSE]
    /\ UNCHANGED <<messages, nextId, buckets, now, pc, req, keysUsed, createdBy, operation, handled, roles, parked, front>>

\* the visitor signs out: session and session cookie are gone
SignOut ==
    /\ nav.session
    /\ nav' = [nav EXCEPT !.session = FALSE, !.jar = Without(@, sessionCookie)]
    /\ UNCHANGED <<messages, nextId, buckets, now, pc, req, keysUsed, createdBy, operation, handled, roles, parked, front>>

\* some script of the page stores a cookie of its own
SetCookie(c) ==
    /\ ~InJar(c)
    /\ Len(nav.jar) < MaxCookies
    /\ nav' = [nav EXCEPT !.jar = Append(@, c)]
    /\ UNCHANGED <<messages, nextId, buckets, now, pc, req, keysUsed, createdBy, operation, handled, roles, parked, front>>

----------------------------------------------------------------------------
(* Route guards (src/lib/patterns/RouteGuards.tsx).  A guard is a function of
   its props and of what its two hooks return; React calls it again whenever
   a hook's value changes *)

RedirectTargets == {"/", "/files", "/dashboard", ".", ".."}

\* the `fallback` prop: absent, or a node of the caller's
Fallbacks == {Undefined, "Spinner"}

\* what useSession() can return: data is null (no user) or carries a user
UseSession ==
    [data : {[user |-> u] : u \in Accounts \cup {NoUser}}, isPending : BOOLEAN]

\* what useAdmin() can return
UseAdmin == [isAdmin : {"true", "false", Undefined}, isLoading : BOOLEAN]

\* fallback ?? <div ...>Loading...</div>
FallbackOr(fallback) == IF fallback = Undefined THEN "Loading..." ELSE fallback

ShowFallback(g) == [kind |-> "fallback", to |-> Undefined, node |-> FallbackOr(g.fallback)]
ShowNavigate(g) == [kind |-> "navigate", to |-> g.redirectTo, node |-> Undefined]
ShowChildren(g) == [kind |-> "children", to |-> Undefined, node |-> "children"]

RequireAuthRender(g) ==
    IF g.session.isPending THEN ShowFallback(g)
    ELSE IF g.session.data.user = NoUser THEN ShowNavigate(g)
    ELSE ShowChildren(g)

\* a guard that waits for the session only
RequireAdminSessionOnly(g) ==
    IF g.session.isPending THEN ShowFallback(g)
    ELSE IF g.session.data.user = NoUser THEN ShowNavigate(g)
    ELSE IF g.admin.isAdmin # "true" THEN ShowNavigate(g)
    ELSE ShowChildren(g)

RequireAdminRender(g) ==
    IF g.session.isPending \/ g.admin.isLoading THEN ShowFallback(g)
    ELSE IF g.session.data.user = NoUser THEN ShowNavigate(g)
    ELSE IF g.admin.isAdmin # "true" THEN ShowNavigate(g)
    ELSE ShowChildren(g)

Render(g) ==
    [g EXCEPT !.out = IF g.component = "RequireAdmin" THEN RequireAdminRender(g)
                      ELSE RequireAuthRender(g)]

\* a route mounts a guard; the hooks return what the client holds by then
Mount(component, redirectTo, fallback, s, a) ==
    /\ guard.component = "none"
    /\ guard' = Render([component |-> component, redirectTo |-> redirectTo,
                        fallback |-> fallback, session |-> s, admin |-> a,
                        out |-> NoGuard.out])
    /\ UNCHANGED <<messages, nextId, buckets, now, pc, req, keysUsed, createdBy, operation, handled, roles, nav, parked, toggle, upload, page>>

\* useSession() returns a new value
SessionChanges(s) ==
    /\ guard.component # "none"
    /\ s # guard.session
    /\ guard' = Render([guard EXCEPT !.session = s])
    /\ UNCHANGED <<messages, nextId, buckets, now, pc, req, keysUsed, createdBy, operation, handled, roles, nav, parked, toggle, upload, page>>

\* useAdmin() returns a new value
AdminChanges(a) ==
    /\ guard.component # "none"
    /\ a # guard.admin
    /\ guard' = Render([guard EXCEPT !.admin = a])
    /\ UNCHANGED <<messages, nextId, buckets, now, pc, req, keysUsed, createdBy, operation, handled, roles, nav, parked, toggle, upload, page>>

\* the route is left (a <Navigate> took effect, or the visitor went elsewhere)
Unmount ==
    /\ guard.component # "none"
    /\ guard' = NoGuard
    /\ UNCHANGED <<messages, nextId, buckets, now, pc, req, keysUsed, createdBy, operation, handled, roles, nav, parked, toggle, upload, page>>

----------------------------------------------------------------------------
(* The theme: the script in the document head (routes/__root.tsx) and
   ThemeToggle (components/ThemeToggle.tsx).  `toggle.theme` is the state of
   the last render, `toggle.queued` a setTheme not rendered yet,
   `toggle.effects` the effects of the last commit that have not run yet,
   `toggle.listening` whether handleChange is registered on the media query
   (it is only ever registered by a render whose theme is 'system') *)

ThemeModes == {"system", "light", "dark"}

\* what localStorage.getItem('theme-preference') can return: null, a mode,
\* or any other string
StoredValues == ThemeModes \cup {Undefined, "solarized"}

IsThemeMode(value) == value \in ThemeModes

\* d = t==='dark' || (t!=='light' && matchMedia('(prefers-color-scheme:dark)').matches)
ScriptDark(t, prefersDark) == t = "dark" \/ (t # "light" /\ prefersDark)

\* useDark = theme === 'dark' || (theme === 'system' && prefersDark)
UseDark(theme, prefersDark) == theme = "dark" \/ (theme = "system" /\ prefersDark)

\* nextTheme
NextTheme(theme) ==
    CASE theme = "system" -> "light"
      [] theme = "light" -> "dark"
      [] OTHER -> "system"

\* first effect (deps []): setTheme(stored) when the stored value is a mode;
\* setting the state to its current value renders nothing
RestoreEffect(t) ==
    IF IsThemeMode(t.stored) /\ t.stored # t.theme THEN [t EXCEPT !.queued = t.stored] ELSE t

\* second effect (deps [theme]): localStorage.setItem(STORAGE_KEY, theme)
PersistEffect(t) == [t EXCEPT !.stored = t.theme]

\* the third effect's cleanup: media.removeEventListener('change', handleChange)
Cleanup(t) == [t EXCEPT !.listening = FALSE]

\* applyTheme() of a render whose theme is `theme`
ApplyTheme(t, theme) == [t EXCEPT !.dark = UseDark(theme, t.prefersDark)]

\* third effect (deps [theme]): applyTheme(), then listen while in 'system'
ApplyEffect(t) ==
    [ApplyTheme(t, t.theme) EXCEPT !.listening = t.listening \/ t.theme = "system"]

\* the mount effects with the first two in the other order
MountEffectsPersistFirst(t) == ApplyEffect(RestoreEffect(PersistEffect(t)))

\* the effects of the first commit, in declaration order
MountEffects(t) == ApplyEffect(PersistEffect(RestoreEffect(t)))

\* the effects of a later commit without the cleanup
UpdateEffectsNoCleanup(t) == ApplyEffect(PersistEffect(t))

\* the effects of a later commit whose theme changed: cleanup, then the two
\* effects that depend on theme
UpdateEffects(t) == ApplyEffect(PersistEffect(Cleanup(t)))

\* a page load: the head script runs before paint, with `stored` in
\* localStorage and the OS preferring dark or not
ThemeScript(stored, prefersDark) ==
    /\ toggle.phase = "none"
    /\ toggle' = [toggle EXCEPT !.phase = "painted", !.loaded = stored, !.stored = stored,
                                !.prefersDark = prefersDark,
                                !.dark = ScriptDark(stored, prefersDark)]
    /\ UNCHANGED <<messages, nextId, buckets, now, pc, req, keysUsed, createdBy, operation, handled, roles, nav, parked, guard, upload, page>>

\* first render of ThemeToggle: useState('system'), effects scheduled
MountToggle ==
    /\ toggle.phase = "painted"
    /\ toggle' = [toggle EXCEPT !.phase = "mounted", !.theme = "system", !.effects = "mount"]
    /\ UNCHANGED <<messages, nextId, buckets, now, pc, req, keysUsed, createdBy, operation, handled, roles, nav, parked, guard, upload, page>>

\* React runs the pending effects of the last commit, all in one go
FlushEffects ==
    /\ toggle.effects # "none"
    /\ toggle' = [(IF toggle.effects = "mount" THEN MountEffects(toggle)
                   ELSE UpdateEffects(toggle)) EXCEPT !.effects = "none"]
    /\ UNCHANGED <<messages, nextId, buckets, now, pc, req, keysUsed, createdBy, operation, handled, roles, nav, parked, guard, upload, page>>

\* React renders the queued setTheme (after the pending effects have run)
Rerender ==
    /\ toggle.effects = "none"
    /\ toggle.queued # Undefined
    /\ toggle' = [toggle EXCEPT !.theme = toggle.queued, !.queued = Undefined,
                                !.effects = IF toggle.queued # toggle.theme THEN "update" ELSE "none"]
    /\ UNCHANGED <<messages, nextId, buckets, now, pc, req, keysUsed, createdBy, operation, handled, roles, nav, parked, guard, upload, page>>

\* onClick={() => setTheme(nextTheme)}: rendered before the next event
Click ==
    /\ toggle.phase = "mounted"
    /\ toggle.effects = "none"
    /\ toggle.clicks < MaxClicks
    /\ toggle' = [toggle EXCEPT !.theme = NextTheme(toggle.theme), !.queued = Undefined,
                                !.effects = "update", !.clicks = @ + 1]
    /\ UNCHANGED <<messages, nextId, buckets, now, pc, req, keysUsed, createdBy, operation, handled, roles, nav, parked, guard, upload, page>>

\* the OS colour scheme flips; a registered handleChange runs applyTheme()
\* of the render that registered it
OsChanges ==
    /\ toggle.phase # "none"
    /\ toggle.changes < MaxOsChanges
    /\ toggle' = IF toggle.listening
                 THEN ApplyTheme([toggle EXCEPT !.prefersDark = ~@, !.changes = @ + 1], "system")
                 ELSE [toggle EXCEPT !.prefersDark = ~@, !.changes = @ + 1]
    /\ UNCHANGED <<messages, nextId, buckets, now, pc, req, keysUsed, createdBy, operation, handled, roles, nav, parked, guard, upload, page>>

----------------------------------------------------------------------------
(* FilesPage.handleUpload (routes/_authenticated/files.tsx).  `upload.runs`
   maps each run that is suspended at an await to its file and the await it
   is at; `upload.storage` is the set of storage ids holding a blob,
   `upload.files` the `files` table *)

MAX_FILE_SIZE == 10 * 1024 * 1024

\* e.target.files?.[0]: nothing, or a file with a name and a size
NoFile == [name |-> Undefined, size |-> 0]
ChosenFiles ==
    {NoFile} \cup [name : {"a.txt"}, size : {0, MAX_FILE_SIZE, MAX_FILE_SIZE + 1}]

\* catch: toast.error, setUploadProgress('')
Caught(u) == [u EXCEPT !.toast = "Upload failed. Please try again.", !.uploadProgress = ""]

\* finally: setIsUploading(false), the input cleared; the run is over.  The
\* run is remembered with the blob it stored, if any
Finally(u, id, blob) ==
    [u EXCEPT !.isUploading = FALSE, !.input = "",
              !.runs = [r \in DOMAIN u.runs \ {id} |-> u.runs[r]],
              !.ended = @ \cup {[run |-> id, blob |-> blob]}]

\* the run's blob so far: its storage id, or none
BlobOf(u, id) == IF id \in u.storage THEN id ELSE 0

\* the change handler on an input that takes events although an upload runs
HandleUploadNotDisabled(file) ==
    /\ upload.started < MaxUploads
    /\ file # NoFile /\ file.size <= MAX_FILE_SIZE
    /\ upload' = [upload EXCEPT !.input = file.name, !.isUploading = TRUE,
                                !.uploadProgress = "Getting upload URL...",
                                !.started = @ + 1, !.calls = @ + 1,
                                !.runs = @ @@ ((upload.started + 1) :> [file |-> file, at |-> "generateUploadUrl"])]
    /\ UNCHANGED <<messages, nextId, buckets, now, pc, req, keysUsed, createdBy, operation, handled, roles, nav, parked, guard, toggle, page>>

\* the visitor picks `file`: the input (disabled while isUploading) fires
\* change, and handleUpload runs up to its first await
HandleUpload(file) ==
    /\ ~upload.isUploading
    /\ IF file = NoFile
       THEN upload' = upload
       ELSE IF file.size > MAX_FILE_SIZE
       THEN upload' = [upload EXCEPT !.toast = "File too large. Maximum size is 10MB.",
                                     !.input = ""]
       ELSE /\ upload.started < MaxUploads
            /\ upload' = [upload EXCEPT !.input = file.name, !.isUploading = TRUE,
                                        !.uploadProgress = "Getting upload URL...",
                                        !.started = @ + 1, !.calls = @ + 1,
                                        !.runs = @ @@ ((upload.started + 1) :> [file |-> file, at |-> "generateUploadUrl"])]
    /\ UNCHANGED <<messages, nextId, buckets, now, pc, req, keysUsed, createdBy, operation, handled, roles, nav, parked, guard, toggle, page>>

\* await generateUploadUrl() settles
UploadUrlSettles(id, fulfilled) ==
    /\ id \in DOMAIN upload.runs /\ upload.runs[id].at = "generateUploadUrl"
    /\ upload' = IF fulfilled
                 THEN [upload EXCEPT !.uploadProgress = "Uploading file...", !.calls = @ + 1,
                                     !.runs[id].at = "fetch"]
                 ELSE Finally(Caught(upload), id, 0)
    /\ UNCHANGED <<messages, nextId, buckets, now, pc, req, keysUsed, createdBy, operation, handled, roles, nav, parked, guard, toggle, page>>

\* await fetch(uploadUrl, { method: 'POST', body: file }) settles: the
\* storage took the blob and answered ("ok"), refused it ("notOk"), or
\* the request failed ("rejected")
FetchOutcomes == {"ok", "notOk", "rejected"}

PostSettles(id, outcome) ==
    /\ id \in DOMAIN upload.runs /\ upload.runs[id].at = "fetch"
    /\ upload' =
          IF outcome = "ok"
          THEN [upload EXCEPT !.storage = @ \cup {id}, !.runs[id].at = "json"]
          ELSE Finally(Caught(upload), id, 0)
    /\ UNCHANGED <<messages, nextId, buckets, now, pc, req, keysUsed, createdBy, operation, handled, roles, nav, parked, guard, toggle, page>>

\* await response.json() settles; on success saveFile is called
JsonSettles(id, fulfilled) ==
    /\ id \in DOMAIN upload.runs /\ upload.runs[id].at = "json"
    /\ upload' = IF fulfilled
                 THEN [upload EXCEPT !.uploadProgress = "Saving metadata...", !.calls = @ + 1,
                                     !.runs[id].at = "saveFile"]
                 ELSE Finally(Caught(upload), id, BlobOf(upload, id))
    /\ UNCHANGED <<messages, nextId, buckets, now, pc, req, keysUsed, createdBy, operation, handled, roles, nav, parked, guard, toggle, page>>

\* await saveFile({ storageId, name, type, size }) settles
SaveFileSettles(id, fulfilled) ==
    /\ id \in DOMAIN upload.runs /\ upload.runs[id].at = "saveFile"
    /\ upload' = IF fulfilled
                 THEN Finally([upload EXCEPT
                                 !.files = @ \cup {[storageId |-> id,
                                                    name |-> upload.runs[id].file.name,
                                                    size |-> upload.runs[id].file.size]},
                                 !.uploadProgress = "",
                                 !.toast = "File uploaded successfully!"],
                              id, BlobOf(upload, id))
                 ELSE Finally(Caught(upload), id, BlobOf(upload, id))
    /\ UNCHANGED <<messages, nextId, buckets, now, pc, req, keysUsed, createdBy, operation, handled, roles, nav, parked, guard, toggle, page>>

----------------------------------------------------------------------------
(* The exported signOut (lib/auth-client.ts).  An options object is a
   function from the keys it has to their values; `Absent` stands for
   undefined.  `page.log` lists what ran when the request completed *)

Absent == [undefined |-> TRUE]
IsAbsent(o) == "undefined" \in DOMAIN o

EmptyObject == [k \in {} |-> Absent]

\* ...o in an object literal: nothing for undefined
Spread(o) == IF IsAbsent(o) THEN EmptyObject ELSE o

\* o?.k
Prop(o, k) == IF IsAbsent(o) \/ k \notin DOMAIN o THEN Absent ELSE o[k]

\* a callback of the caller's: it returns, or it throws
Callbacks == [callback : {"caller"}, throws : BOOLEAN]

\* the fetchOptions a caller may pass
CallerFetchOptions ==
    {EmptyObject, [headers |-> [value |-> "h"]], [onError |-> [callback |-> "onError", throws |-> FALSE]]}
    \cup {[onSuccess |-> c] : c \in Callbacks}
    \cup {[onSuccess |-> c, headers |-> [value |-> "h"]] : c \in Callbacks}
    \cup {[onSuccess |-> c, onError |-> [callback |-> "onError", throws |-> FALSE]] : c \in Callbacks}

\* the argument of signOut: undefined, or an object with or without
\* `query` and `fetchOptions`
CallerOptions ==
    {Absent, EmptyObject, [query |-> [value |-> "q"]]}
    \cup {[fetchOptions |-> f] : f \in CallerFetchOptions}
    \cup {[query |-> [value |-> "q"], fetchOptions |-> f] : f \in CallerFetchOptions}

\* (...args) => { opts?.fetchOptions?.onSuccess?.(...args); location.reload() }
Wrapper(opts) == [wrapper |-> TRUE, inner |-> Prop(Prop(opts, "fetchOptions"), "onSuccess")]

\* { ...opts, fetchOptions: { ...opts?.fetchOptions, onSuccess: wrapper } }
SignOutOptions(opts) ==
    ("fetchOptions" :> (("onSuccess" :> Wrapper(opts)) @@ Spread(Prop(opts, "fetchOptions"))))
        @@ Spread(opts)

\* what the wrapper does when called: the caller's callback if there is
\* one, then location.reload() unless the callback threw
RunWrapper(w) ==
    IF IsAbsent(w.inner) THEN <<"reload">>
    ELSE IF w.inner.throws THEN <<"onSuccess", "threw">>
    ELSE <<"onSuccess", "reload">>

\* signOut(opts): _signOut is called with the merged options
SignOutCalled(opts) ==
    /\ page.request = "idle"
    /\ page.calls < MaxSignOuts
    /\ page' = [page EXCEPT !.request = "sent", !.opts = opts, !.passed = SignOutOptions(opts),
                            !.log = <<>>, !.calls = @ + 1]
    /\ UNCHANGED <<messages, nextId, buckets, now, pc, req, keysUsed, createdBy, operation, handled, roles, nav, parked, guard, toggle, upload>>

\* the request succeeds: the client calls fetchOptions.onSuccess
SignOutSucceeds ==
    /\ page.request = "sent"
    /\ page' = [page EXCEPT !.request = "succeeded",
                            !.log = RunWrapper(page.passed.fetchOptions.onSuccess)]
    /\ UNCHANGED <<messages, nextId, buckets, now, pc, req, keysUsed, createdBy, operation, handled, roles, nav, parked, guard, toggle, upload>>

\* the request fails: the client calls fetchOptions.onError if there is one
SignOutFails ==
    /\ page.request = "sent"
    /\ page' = [page EXCEPT !.request = "failed",
                            !.log = IF IsAbsent(Prop(page.passed.fetchOptions, "onError"))
                                    THEN <<>> ELSE <<"onError">>]
    /\ UNCHANGED <<messages, nextId, buckets, now, pc, req, keysUsed, createdBy, operation, handled, roles, nav, parked, guard, toggle, upload>>

\* the page is loaded again (by location.reload() or by the visitor)
PageLoads ==
    /\ page.request \in {"succeeded", "failed"}
    /\ page' = [FreshPage EXCEPT !.calls = page.calls]
    /\ UNCHANGED <<messages, nextId, buckets, now, pc, req, keysUsed, createdBy, operation, handled, roles, nav, parked, guard, toggle, upload>>

----------------------------------------------------------------------------
(* The pipeline specification *)

SendKeys == {"anonymous"} \cup {u._id : u \in Users}

Drained(name) == [value |-> 0, ts |-> 0]

\* Nothing is stored yet.  A sendMessage bucket is either untouched or was
\* emptied by earlier sends whose messages have been deleted since.
Init ==
    /\ messages = {}
    /\ nextId = 1
    /\ \E D \in SUBSET SendKeys :
          buckets = [p \in {<<"sendMessage", k>> : k \in D} |-> Drained("sendMessage")]
    /\ now = 0
    /\ pc = "ready"
    /\ req = Finish(NewRequest("none", NoSession, <<>>, 0), "none")
    /\ keysUsed = {}
    /\ createdBy = <<>>
    /\ operation = "apiCall"
    /\ handled = [k \in {} |-> 0]
    /\ roles = InitRoles
    /\ nav = FreshBrowser
    /\ parked = NoneParked
    /\ guard = NoGuard
    /\ toggle = NoPage
    /\ upload = NoUpload
    /\ page = FreshPage

FactoryContents == {<<>>, hello}

\* arguments of setAdminByEmail
Emails == {<<>>, <<"a">>, annEmail, at}

Next ==
    \/ \E s \in Sessions, c \in Contents : nextId <= MaxInserts /\ SendStart(s, c)
    \/ SendValidate
    \/ SendResolve
    \/ SendDerive
    \/ SendGate
    \/ SendCommit
    \/ \E s \in Sessions, id \in 1..MaxInserts : Remove(s, id)
    \/ \E c \in FactoryContents, u \in Users :
          nextId <= MaxInserts /\ ExampleCreateMessage(c, u._id)

Spec == Init /\ [][Next]_vars

----------------------------------------------------------------------------
(* withRateLimit(handler, operation, options): one invocation of the
   mutation it returns.  The four presets build it without options.getKey,
   so that the key is the user's id.  The wrapped handler counts its runs. *)

Handled(key) == IF key \in DOMAIN handled THEN handled[key] ELSE 0

\* options.getKey of the wrapped mutation: not given, or a function of the
\* user that returns one name for everybody or the display name
GetKeys == {"none", "global", "byName"}

ApplyGetKey(getKey, user) ==
    CASE getKey = "global" -> "global"
      [] getKey = "byName" -> user.name
      [] OTHER -> Undefined

\* options?.getKey?.(ctx, args, user) ?? user._id
WrappedKey(getKey, user) ==
    IF ApplyGetKey(getKey, user) = Undefined THEN user._id ELSE ApplyGetKey(getKey, user)

Stages(r, names) == [r EXCEPT !.stages = names]

\* the limiter consulted ahead of requireAuth, under 'anonymous' for a
\* caller who is not signed in
WithRateLimitGateFirst(session, getKey) ==
    /\ pc = "ready"
    /\ pc' = "ready"
    /\ LET user == ResolveUser(session)
           key == IF user = NoUser THEN "anonymous" ELSE WrappedKey(getKey, user)
           r == [NewRequest("withRateLimit", session, <<>>, 0)
                    EXCEPT !.user = user, !.getKey = getKey, !.key = key]
       IN  IF ~LimitOk(buckets, operation, key, now)
           THEN /\ req' = Finish(Stages(r, <<"key", "limit">>), "RateLimited")
                /\ UNCHANGED <<buckets, handled>>
           ELSE IF RequireAuth(session).threw
           THEN /\ req' = Finish(Stages(r, <<"key", "limit", "auth">>), "Authentication required")
                /\ buckets' = LimitTake(buckets, operation, key, now)
                /\ handled' = handled
           ELSE /\ req' = Finish(Stages(r, <<"key", "limit", "auth", "handler">>), "ok")
                /\ buckets' = LimitTake(buckets, operation, key, now)
                /\ handled' = [k \in (DOMAIN handled) \cup {key} |-> IF k = key THEN Handled(k) + 1 ELSE handled[k]]
    /\ UNCHANGED <<messages, nextId, now, keysUsed, createdBy, operation, roles, nav, parked, front>>

\* one invocation of the mutation withRateLimit(handler, operation, options)
\* returns: requireAuth, the key, rateLimiter.limit, the handler
WithRateLimitOptions(session, getKey) ==
    /\ pc = "ready"
    /\ pc' = "ready"
    /\ LET auth == RequireAuth(session)
           key == WrappedKey(getKey, auth.user)
           r == [NewRequest("withRateLimit", session, <<>>, 0)
                    EXCEPT !.user = auth.user, !.getKey = getKey]
       IN  IF auth.threw
           THEN /\ req' = Finish(Stages(r, <<"auth">>), "Authentication required")
                /\ UNCHANGED <<buckets, handled>>
           ELSE IF ~LimitOk(buckets, operation, key, now)
           THEN /\ req' = Finish(Stages([r EXCEPT !.key = key], <<"auth", "key", "limit">>), "RateLimited")
                /\ UNCHANGED <<buckets, handled>>
           ELSE /\ req' = Finish(Stages([r EXCEPT !.key = key], <<"auth", "key", "limit", "handler">>), "ok")
                /\ buckets' = LimitTake(buckets, operation, key, now)
                /\ handled' = [k \in (DOMAIN handled) \cup {key} |-> IF k = key THEN Handled(k) + 1 ELSE handled[k]]
    /\ UNCHANGED <<messages, nextId, now, keysUsed, createdBy, operation, roles, nav, parked, front>>

\* the mutation a preset returns: withRateLimit(handler, operation)
WithRateLimit(session) == WithRateLimitOptions(session, "none")

----------------------------------------------------------------------------
(* The quota specification: one user sends, and calls a mutation wrapped by
   withRateLimit for one of the operation names, with no time elapsing *)

InitQuota ==
    /\ messages = {}
    /\ nextId = 1
    /\ buckets = [p \in {} |-> Drained("sendMessage")]
    /\ now = 0
    /\ pc = "ready"
    /\ req = Finish(NewRequest("none", NoSession, <<>>, 0), "none")
    /\ keysUsed = {}
    /\ createdBy = <<>>
    /\ operation \in RateLimitNames
    /\ handled = [k \in {} |-> 0]
    /\ roles = InitRoles
    /\ nav = FreshBrowser
    /\ parked = NoneParked
    /\ guard = NoGuard
    /\ toggle = NoPage
    /\ upload = NoUpload
    /\ page = FreshPage

BurstContents == {ok, <<>>}

NextQuota ==
    \/ \E c \in BurstContents : nextId <= MaxBurstInserts /\ SendStart(SessionOf(u1), c)
    \/ SendValidate
    \/ SendResolve
    \/ SendDerive
    \/ SendGate
    \/ SendCommit
    \/ \E s \in {SessionOf(u1), NoSession} :
          Handled(s.user._id) < MaxHandled /\ WithRateLimit(s)

SpecQuota == InitQuota /\ [][NextQuota]_vars

----------------------------------------------------------------------------
(* The partition specification: two users and two anonymous callers send,
   and the two users call a mutation wrapped by the withStrictRateLimit
   ('sendMessage') or the withAuthRateLimit ('loginAttempt') preset, with
   no time elapsing *)

SharedOperations == {"sendMessage", "loginAttempt"}

InitShared ==
    /\ InitQuota
    /\ operation \in SharedOperations

NextShared ==
    \/ \E s \in Sessions : nextId <= MaxSharedInserts /\ SendStart(s, ok)
    \/ SendValidate
    \/ SendResolve
    \/ SendDerive
    \/ SendGate
    \/ SendCommit
    \/ \E s \in {SessionOf(u1), SessionOf(u2)} :
          Handled(s.user._id) < MaxSharedHandled /\ WithRateLimit(s)

SpecShared == InitShared /\ [][NextShared]_vars

----------------------------------------------------------------------------
(* The refill specification: between two mutations the clock advances by
   half a period of the wrapped operation.  One user sends when the
   operation is 'sendMessage' and calls the wrapped mutation otherwise. *)

HalfPeriod == RATE_LIMIT_DEFS[operation].period \div 2

Tick ==
    /\ pc = "ready"
    /\ now < MaxHalfWindows * HalfPeriod
    /\ now' = now + HalfPeriod
    /\ UNCHANGED <<messages, nextId, buckets, pc, req, keysUsed, createdBy, operation, handled, roles, nav, parked, front>>

NextRefill ==
    \/ operation = "sendMessage" /\ nextId <= MaxRefillInserts /\ SendStart(SessionOf(u1), ok)
    \/ SendValidate
    \/ SendResolve
    \/ SendDerive
    \/ SendGate
    \/ SendCommit
    \/ /\ operation # "sendMessage"
       /\ Handled("u1") < MaxRefillHandled
       /\ WithRateLimit(SessionOf(u1))
    \/ Tick

SpecRefill == InitQuota /\ [][NextRefill]_vars

----------------------------------------------------------------------------
(* The concurrency specification: invocations of send by one user run in
   parallel.  The invocation being executed can be suspended between two of
   its steps while another one starts or goes on; each step, the call of
   rateLimiter.limit included, is one transaction step on the database. *)

Suspended == [pc |-> pc, req |-> req]

Park(bag, e) ==
    IF e \in DOMAIN bag
    THEN [bag EXCEPT ![e] = @ + 1]
    ELSE bag @@ (e :> 1)

Unpark(bag, e) ==
    IF bag[e] = 1
    THEN [x \in (DOMAIN bag) \ {e} |-> bag[x]]
    ELSE [bag EXCEPT ![e] = @ - 1]

RECURSIVE ParkedCount(_, _)
ParkedCount(bag, S) ==
    IF S = {} THEN 0
    ELSE LET e == CHOOSE x \in S : TRUE
         IN  bag[e] + ParkedCount(bag, S \ {e})

InFlight == ParkedCount(parked, DOMAIN parked) + (IF pc = "ready" THEN 0 ELSE 1)

\* a new invocation starts while the running one waits
Spawn(session, content) ==
    /\ pc # "ready"
    /\ InFlight < MaxConcurrent
    /\ parked' = Park(parked, Suspended)
    /\ pc' = "validate"
    /\ req' = NewRequest("send", session, content, 0)
    /\ UNCHANGED <<messages, nextId, buckets, now, keysUsed, createdBy, operation, handled, roles, nav, front>>

\* a suspended invocation goes on; the running one, unless it has
\* finished, waits in its place
Resume(e) ==
    /\ e \in DOMAIN parked
    /\ parked' = IF pc = "ready" THEN Unpark(parked, e) ELSE Park(Unpark(parked, e), Suspended)
    /\ pc' = e.pc
    /\ req' = e.req
    /\ UNCHANGED <<messages, nextId, buckets, now, keysUsed, createdBy, operation, handled, roles, nav, front>>

InitRaced ==
    /\ InitQuota
    /\ operation = "sendMessage"

NextRaced ==
    \/ nextId <= MaxRacedInserts /\ SendStart(SessionOf(u1), ok)
    \/ nextId <= MaxRacedInserts /\ Spawn(SessionOf(u1), ok)
    \/ \E e \in DOMAIN parked : Resume(e)
    \/ SendValidate
    \/ SendResolve
    \/ SendDerive
    \/ SendGate
    \/ SendCommit

SpecRaced == InitRaced /\ [][NextRaced]_vars

----------------------------------------------------------------------------
(* The store specification: every mutation that reaches the messages table,
   and setAdminByEmail, with two short contents *)

StoreContents == {ok, hello}

InitStore ==
    /\ InitQuota
    /\ operation = "apiCall"

NextStore ==
    \/ \E s \in Sessions, c \in StoreContents : nextId <= MaxStoreInserts /\ SendStart(s, c)
    \/ SendValidate
    \/ SendResolve
    \/ SendDerive
    \/ SendGate
    \/ SendCommit
    \/ \E s \in Sessions, id \in 1..MaxStoreInserts : Remove(s, id)
    \/ \E s \in Sessions, id \in 1..MaxStoreInserts : DeleteAny(s, id)
    \/ \E c \in StoreContents, u \in Users :
          nextId <= MaxStoreInserts /\ ExampleCreateMessage(c, u._id)
    \/ \E s \in {NoSession, SessionOf(u1)}, e \in Emails, b \in BOOLEAN : SetAdminByEmail(s, e, b)

SpecStore == InitStore /\ [][NextStore]_vars

----------------------------------------------------------------------------
(* The admin specification: the four accounts, a caller without session
   and one whose lookup raises ask isAdmin, call setAdminByEmail and try
   deleteAny on a message of u1 *)

AdminSessions == {SessionOf(a) : a \in Accounts} \cup {NoSession, BrokenSession}

AdminEmails == Emails \cup {bobEmail, cyEmail}

NextAdmin ==
    \/ \E s \in AdminSessions : IsAdmin(s)
    \/ \E s \in AdminSessions, e \in AdminEmails, b \in BOOLEAN : SetAdminByEmail(s, e, b)
    \/ nextId <= MaxAdminInserts /\ ExampleCreateMessage(hello, "u1")
    \/ \E s \in AdminSessions, id \in 1..MaxAdminInserts : DeleteAny(s, id)

SpecAdmin == InitStore /\ [][NextAdmin]_vars

----------------------------------------------------------------------------
(* The routes specification: one visitor signs in and out, cookies come and
   go, and the router loads routes on the server (first request) or in the
   browser *)

NextRoutes ==
    \/ \E env \in {"server", "client"}, to \in ProtectedRoutes \cup {"/"} : Navigate(env, to)
    \/ \E readable \in BOOLEAN : SignIn(readable)
    \/ SessionEnds
    \/ SignOut
    \/ \E c \in Cookies \ {sessionCookie} : SetCookie(c)

SpecRoutes == InitStore /\ [][NextRoutes]_vars

----------------------------------------------------------------------------
(* The middleware specification: two users, a caller without session and
   one whose lookup raises call mutations wrapped by withRateLimit, with and
   without options.getKey, for the operations of the four presets and for
   registerUser *)

WrappedOperations == {"apiCall", "sendMessage", "uploadFile", "loginAttempt", "registerUser"}

InitWrapped ==
    /\ InitQuota
    /\ operation \in WrappedOperations

NextWrapped ==
    \/ \E s \in Sessions : Handled(s.user._id) < MaxWrappedHandled /\ WithRateLimit(s)
    \/ \E s \in Sessions, g \in GetKeys \ {"none"} :
          /\ s.kind = "user" => Handled(WrappedKey(g, s.user)) < MaxWrappedHandled
          /\ WithRateLimitOptions(s, g)

SpecWrapped == InitWrapped /\ [][NextWrapped]_vars

----------------------------------------------------------------------------
(* The guards specification: a route mounts RequireAuth or RequireAdmin with
   any props, and the two lookups resolve, re-resolve and fall back to
   loading in any order *)

NextGuards ==
    \/ \E c \in {"RequireAuth", "RequireAdmin"}, to \in RedirectTargets, f \in Fallbacks,
          s \in UseSession, a \in UseAdmin : Mount(c, to, f, s, a)
    \/ \E s \in UseSession : SessionChanges(s)
    \/ \E a \in UseAdmin : AdminChanges(a)
    \/ Unmount

SpecGuards == InitStore /\ [][NextGuards]_vars

----------------------------------------------------------------------------
(* The ranges specification: documents are inserted while the clock
   advances, and both date range queries are asked with any pair of bounds *)

RangeTimes == {i * HalfPeriod : i \in 0..MaxHalfWindows}

NextRanges ==
    \/ nextId <= MaxRangeInserts /\ ExampleCreateMessage(ok, "u1")
    \/ Tick
    \/ \E a \in RangeTimes, b \in RangeTimes : QueryFindInDateRange(a, b)
    \/ \E a \in RangeTimes, b \in RangeTimes : QueryDateRange(a, b)

SpecRanges == InitStore /\ [][NextRanges]_vars

----------------------------------------------------------------------------
(* The theme specification: a page loads with any stored value and either
   OS preference, ThemeToggle mounts, and clicks and OS changes arrive while
   React renders and runs effects *)

NextThemes ==
    \/ \E v \in StoredValues, d \in BOOLEAN : ThemeScript(v, d)
    \/ MountToggle
    \/ FlushEffects
    \/ Rerender
    \/ Click
    \/ OsChanges

SpecTheme == InitStore /\ [][NextThemes]_vars

----------------------------------------------------------------------------
(* The files specification: the visitor picks files (none, small, exactly
   10 MB, larger) whenever the input takes events, and every await of
   handleUpload settles either way *)

NextFiles ==
    \/ \E f \in ChosenFiles : HandleUpload(f)
    \/ \E id \in 1..MaxUploads, b \in BOOLEAN : UploadUrlSettles(id, b)
    \/ \E id \in 1..MaxUploads, o \in FetchOutcomes : PostSettles(id, o)
    \/ \E id \in 1..MaxUploads, b \in BOOLEAN : JsonSettles(id, b)
    \/ \E id \in 1..MaxUploads, b \in BOOLEAN : SaveFileSettles(id, b)

SpecFiles == InitStore /\ [][NextFiles]_vars

----------------------------------------------------------------------------
(* The sign-out specification: signOut is called with any options, and the
   request succeeds or fails *)

NextSignOut ==
    \/ \E o \in CallerOptions : SignOutCalled(o)
    \/ SignOutSucceeds
    \/ SignOutFails
    \/ PageLoads

SpecSignOut == InitStore /\ [][NextSignOut]_vars

----------------------------------------------------------------------------
(* Vocabulary of the properties *)

IsPrefix(a, b) == Len(a) <= Len(b) /\ a = SubSeq(b, 1, Len(a))

CodeOrder == <<"validate", "resolve", "derive", "gate", "commit">>
SpecOrder == <<"resolve", "derive", "gate", "validate", "commit">>

ValidationErrors == {"Message cannot be empty", "Message too long (max 2000 characters)"}

\* the input without its surrounding white space, read off the input itself
Blank(s) == \A i \in 1..Len(s) : s[i] \in WhiteSpace
FirstInk(s) == CHOOSE i \in 1..Len(s) : s[i] \notin WhiteSpace /\ \A j \in 1..(i - 1) : s[j] \in WhiteSpace
LastInk(s) == CHOOSE i \in 1..Len(s) : s[i] \notin WhiteSpace /\ \A j \in (i + 1)..Len(s) : s[j] \in WhiteSpace
Trimmed(s) == IF Blank(s) THEN <<>> ELSE SubSeq(s, FirstInk(s), LastInk(s))

\* the caller of the request is an authenticated principal
Authenticated(r) == r.session.kind = "user"

\* the bucket the caller of r draws on has no token left
OverQuota(r) ==
    ~LimitOk(buckets, "sendMessage",
             IF Authenticated(r) THEN r.session.user._id ELSE "anonymous", now)

SendFinished == pc = "ready" /\ req.op = "send"

----------------------------------------------------------------------------
(* C1 *)

\* C1 as stated: the stages of a send run in the order resolve identity,
\* derive key, gate, validate content, commit, so no content check precedes
\* the gate and a call that is over quota is never answered by a content
\* error.
C1_GateBeforeValidation ==
    req.op = "send" =>
        /\ IsPrefix(req.stages, SpecOrder)
        /\ (SendFinished /\ req.outcome \in ValidationErrors => ~OverQuota(req))

C1_StagesInv ==
    req.op = "send" =>
        /\ IsPrefix(req.stages, CodeOrder)
        /\ Len(req.stages) >= 1 => (ValidateContent(Trimmed(req.content)) = "" <=> req.outcome \notin ValidationErrors)
        /\ req.outcome \in ValidationErrors => req.stages = <<"validate">>
        /\ req.outcome = "RateLimited" => req.stages = SubSeq(CodeOrder, 1, 4)
        /\ req.outcome = "ok" => req.stages = CodeOrder

C1_GateStep ==
    pc = "gate" =>
        /\ req.stages = SubSeq(CodeOrder, 1, 3)
        /\ OverQuota(req) => pc' = "ready" /\ req'.outcome = "RateLimited" /\ messages' = messages
        /\ ~OverQuota(req) => pc' = "commit" \/ UNCHANGED vars

\* C1 amended: the stages of a send run in the order validate content,
\* resolve identity, derive key, gate, commit.  The gate is consulted only
\* after content validation and identity resolution: a call with invalid
\* content is rejected by validation without the gate being consulted, and a
\* call with valid content that is over quota is rejected by the gate.
C1_ValidationBeforeGate == []C1_StagesInv /\ [][C1_GateStep]_vars

\* a call with valid content was turned away by the gate
C1_Witness ==
    /\ SendFinished
    /\ req.outcome = "RateLimited"
    /\ req.stages = <<"validate", "resolve", "derive", "gate">>
    /\ req.content = hello

----------------------------------------------------------------------------
(* C2, C3 *)

KeyOfMessage(m) == IF m.authorId = Undefined THEN "anonymous" ELSE m.authorId

\* calls the limiter has admitted on the bucket <<name, key>>: the messages
\* sent under the key (and the send past the gate, about to insert), and the
\* runs of the wrapped handler
Admitted(name, key) ==
      (IF name = "sendMessage"
       THEN Cardinality({m \in messages : KeyOfMessage(m) = key})
            + (IF pc = "commit" /\ req.key = key THEN 1 ELSE 0)
       ELSE 0)
    + (IF name = operation THEN Handled(key) ELSE 0)

\* nothing but send has drawn on the sendMessage bucket of the key
OnlySendsDraw(key) == operation # "sendMessage" \/ Handled(key) = 0

\* the last call has been answered by the limiter
Gated ==
    /\ pc = "ready"
    /\ \/ req.op = "send" /\ Len(req.stages) >= 4
       \/ req.op = "withRateLimit" /\ req.outcome # "Authentication required"

GatedName == IF req.op = "send" THEN "sendMessage" ELSE operation

\* C2: of 11 sends with valid content that one authenticated user makes
\* within 60 seconds on an untouched bucket, the first 10 are admitted and
\* the 11th is rejected by the gate: inside the first minute the user never
\* has an 11th message, and the gate rejects only after 10 admissions.
C2_EleventhRejected ==
    now < 60000 /\ OnlySendsDraw("u1") =>
        /\ Cardinality({m \in messages : m.authorId = "u1"}) <= 10
        /\ SendFinished /\ req.outcome = "RateLimited" => Admitted("sendMessage", req.key) = 10

----------------------------------------------------------------------------
(* C4 *)

\* C4: every stored message has a content whose trimmed length is between 1
\* and 2000, and was inserted by send.
C4_StoredContentValid ==
    \A m \in messages :
        /\ Len(Trimmed(m.content)) \in 1..2000
        /\ createdBy[m._id] = "send"

----------------------------------------------------------------------------
(* C5 *)

\* C5: the key send hands to the limiter is the principal's identifier when
\* a principal is present and "anonymous" exactly when none is.
C5_KeyIsPrincipalOrAnonymous ==
    /\ req.op = "send" /\ Len(req.stages) >= 3 =>
          /\ Authenticated(req) => req.key = req.session.user._id
          /\ req.key = "anonymous" <=> ~Authenticated(req)
    /\ \A p \in keysUsed :
          /\ p[1] # Undefined => p[2] = p[1]
          /\ p[2] = "anonymous" <=> p[1] = Undefined

\* both a principal's key and the anonymous key have reached the limiter
C5_Witness ==
    /\ <<"u1", "u1">> \in keysUsed
    /\ <<Undefined, "anonymous">> \in keysUsed
    /\ req.op = "send" /\ req.session = BrokenSession /\ req.key = "anonymous"

----------------------------------------------------------------------------
(* C6 *)

\* C6: over all the calls made, one principal always gets one key, and
\* two distinct principals never get the same key.
C6_KeyInjective ==
    \A p, q \in keysUsed :
        /\ p[1] = q[1] => p[2] = q[2]
        /\ p[1] # q[1] => p[2] # q[2]

\* two principals and an anonymous caller have been through the gate
C6_Witness ==
    {p[1] : p \in keysUsed} = {"u1", "u2", Undefined}

----------------------------------------------------------------------------
(* C7 *)

\* C7: a send without a session, or whose identity lookup raises, is never
\* failed by identity resolution: it goes on as an absent principal under
\* the anonymous key and ends like any other send.
C7_ResolutionNeverFails ==
    req.op = "send" /\ ~Authenticated(req) =>
        /\ req.outcome \in {"pending", "ok", "RateLimited"} \cup ValidationErrors
        /\ req.user = NoUser
        /\ Len(req.stages) >= 3 => req.key = "anonymous"
        /\ req.outcome \in ValidationErrors <=> Len(req.stages) >= 1 /\ ValidateContent(Trimmed(req.content)) # ""
        /\ req.outcome = "ok" =>
              \E m \in messages : m._id = req.id /\ m.authorId = Undefined /\ m.authorName = "Anonymous"

\* a send whose identity lookup raised has been committed
C7_Witness ==
    /\ SendFinished
    /\ req.session = BrokenSession
    /\ req.outcome = "ok"

----------------------------------------------------------------------------
(* C8 *)

\* C8: send answers "Message cannot be empty" exactly when the content is
\* empty once trimmed, "Message too long (max 2000 characters)" exactly when
\* the trimmed content is longer than 2000, and lets the content pass
\* otherwise.
C8_ValidationExact ==
    req.op = "send" /\ Len(req.stages) >= 1 =>
        /\ req.outcome = "Message cannot be empty" <=> Len(Trimmed(req.content)) = 0
        /\ req.outcome = "Message too long (max 2000 characters)" <=> Len(Trimmed(req.content)) > 2000
        /\ req.outcome \notin ValidationErrors <=> Len(Trimmed(req.content)) \in 1..2000

\* a content of exactly 2000 characters inside white space was accepted
C8_Witness ==
    /\ SendFinished
    /\ req.outcome = "ok"
    /\ Len(req.content) = 2003
    /\ Len(Trimmed(req.content)) = 2000

----------------------------------------------------------------------------
(* C9 *)

C9_CommitStep ==
    /\ pc \notin {"ready", "commit"} => messages' = messages
    /\ req'.op = "send" /\ req'.outcome = "ok" /\ req.outcome # "ok" =>
          \E m \in messages' :
              /\ m \notin messages
              /\ messages' = messages \cup {m}
              /\ m._id = req'.id
              /\ m.content = Trimmed(req'.content)
              /\ Authenticated(req') =>
                    m.authorId = req'.session.user._id /\ m.authorName = req'.session.user.name
              /\ ~Authenticated(req') =>
                    m.authorId = Undefined /\ m.authorName = "Anonymous"

\* C9: a successful send inserts exactly one message: its content is the
\* trimmed input, its author fields are the principal's identifier and
\* display name, or undefined and "Anonymous" without a principal.
C9_SendInsertsOne == [][C9_CommitStep]_vars

\* an anonymous send of "hello" has been stored
C9_Witness ==
    /\ SendFinished
    /\ req.outcome = "ok"
    /\ req.session = NoSession
    /\ req.content = hello
    /\ \E m \in messages :
          m._id = req.id /\ m.content = hello /\ m.authorId = Undefined /\ m.authorName = "Anonymous"

----------------------------------------------------------------------------
(* C10 *)

C10_RemoveStep ==
    /\ pc = "ready"
    /\ req'.op = "remove"
    /\ Authenticated(req')
    /\ \E m \in messages : m._id = req'.id /\ m.authorId # req'.session.user._id
    => /\ req'.outcome = "Not authorized to delete this message"
       /\ messages' = messages

\* C10: remove called by an authenticated user on a message of another
\* author is rejected with the authorization error and leaves the message
\* in the store.
C10_RemoveOthersRejected == [][C10_RemoveStep]_vars

\* an authenticated user was refused the removal of somebody else's message
C10_Witness ==
    /\ req.op = "remove"
    /\ Authenticated(req)
    /\ req.outcome = "Not authorized to delete this message"
    /\ \E m \in messages : m._id = req.id /\ m.authorId # req.session.user._id

----------------------------------------------------------------------------
(* C11 *)

\* the account is an admin: by its role field or by the whitelist
AdminAccount(id) == roles[id] = "admin" \/ EmailOf(id) \in ADMIN_EMAILS

C11_RemovalStep ==
    \A m \in messages :
        m \notin messages' =>
            /\ req'.id = m._id
            /\ Authenticated(req')
            /\ \/ req'.op = "remove" /\ m.authorId = req'.session.user._id
               \/ req'.op = "deleteAny" /\ AdminAccount(req'.session.user._id)
            /\ m.authorId = Undefined =>
                  req'.op = "deleteAny" /\ AdminAccount(req'.session.user._id)

\* C11: a message leaves the store only through remove called by the
\* authenticated principal whose id is the message's authorId, or through
\* deleteAny called by an admin; an unauthenticated caller or a non-author
\* non-admin never removes a message, and a message without authorId is
\* removed only by an admin.
C11_OnlyAuthorOrAdminRemoves == [][C11_RemovalStep]_vars

\* an admin has deleted the one message, which an anonymous caller had sent
C11_Witness ==
    /\ req.op = "deleteAny"
    /\ req.outcome = "ok"
    /\ req.session = SessionOf(u2)
    /\ messages = {}
    /\ DOMAIN createdBy = {req.id}
    /\ createdBy[req.id] = "send"
    /\ keysUsed = {<<Undefined, "anonymous">>}

----------------------------------------------------------------------------
(* C12 *)

C12_SendStep ==
    /\ pc \in {"validate", "resolve", "derive", "gate"} =>
          messages' = messages /\ nextId' = nextId /\ createdBy' = createdBy
    /\ pc = "ready" /\ req'.op = "send" => messages' = messages
    /\ req'.op = "send" /\ req.outcome = "pending"
          /\ req'.outcome \in ValidationErrors \cup {"RateLimited"} => messages' = messages
    /\ req'.op = "send" /\ messages' # messages =>
          /\ pc = "commit"
          /\ pc' = "ready"
          /\ req'.outcome = "ok"
          /\ req'.stages = CodeOrder

\* C12: a send rejected by the content checks or by the gate leaves the
\* messages table as it was when the call began: no step of send before
\* the insert writes to the table, and the insert is the last step of a
\* call that succeeds.
C12_FailedSendWritesNothing == [][C12_SendStep]_vars

\* with messages stored, one send was turned away by the gate
C12_Witness ==
    /\ SendFinished
    /\ req.outcome = "RateLimited"
    /\ req.content = ok
    /\ Cardinality(messages) = 15
    /\ \A m \in messages : m.authorId = "u1" /\ m.content = ok

----------------------------------------------------------------------------
(* C13 *)

\* the key the caller of r stands for
CallerKey(r) == IF Authenticated(r) THEN r.session.user._id ELSE "anonymous"

\* the bucket a step may draw on: the caller's own, under the name of the
\* operation the caller is asking for
Drawn ==
    IF pc = "gate" THEN {<<"sendMessage", CallerKey(req)>>}
    ELSE IF pc = "ready" /\ req'.op = "withRateLimit" /\ Authenticated(req')
    THEN {<<operation, CallerKey(req')>>}
    ELSE {}

C13_BucketStep ==
    \A name \in RateLimitNames, key \in SendKeys :
        <<name, key>> \notin Drawn =>
            /\ <<name, key>> \in DOMAIN buckets' <=> <<name, key>> \in DOMAIN buckets
            /\ <<name, key>> \in DOMAIN buckets => buckets'[<<name, key>>] = buckets[<<name, key>>]

C13_BucketInv ==
    /\ \A name \in RateLimitNames, key \in SendKeys :
          Level(buckets, name, key, now) =
              (RATE_LIMIT_DEFS[name].capacity - Admitted(name, key)) * RATE_LIMIT_DEFS[name].period
    /\ SendFinished /\ req.outcome = "RateLimited" =>
          Admitted("sendMessage", CallerKey(req)) = RATE_LIMIT_DEFS.sendMessage.capacity

----------------------------------------------------------------------------
(* C14 *)

CreatedAt(t) == {m \in messages : m._creationTime = t}

\* C14: once a call has been rejected and one full period has passed with
\* no other call on the bucket, at least `rate` tokens are back, and a
\* bucket never holds more than `capacity` tokens.  For sendMessage: no more
\* than 15 sends are admitted at one instant, and when nothing was sent
\* during the 60000 ms before, at least 10 are admitted before one is
\* rejected.
C14_WindowRestoresRate ==
    /\ \A p \in DOMAIN buckets :
          /\ buckets[p].value >= 0
          /\ buckets[p].value <= FullBucket(p[1]) - OneToken(p[1])
          /\ Level(buckets, p[1], p[2], now) <= FullBucket(p[1])
    /\ Gated /\ req.outcome = "RateLimited" /\ now >= req.at + RATE_LIMIT_DEFS[GatedName].period =>
          Level(buckets, GatedName, req.key, now) >= RATE_LIMIT_DEFS[GatedName].rate * OneToken(GatedName)
    /\ \A m \in messages : Cardinality(CreatedAt(m._creationTime)) <= 15
    /\ /\ SendFinished
       /\ req.outcome = "RateLimited"
       /\ req.at = now
       /\ \A m \in messages : m._creationTime = now \/ m._creationTime <= now - 60000
       => Cardinality(CreatedAt(now)) >= 10

\* 15 sends at time 0, a full window without a call, then 10 sends were
\* admitted at 60000 ms and the 11th was rejected
C14_Witness ==
    /\ SendFinished
    /\ req.outcome = "RateLimited"
    /\ req.at = 60000
    /\ now = 60000
    /\ Cardinality(CreatedAt(0)) = 15
    /\ Cardinality(CreatedAt(60000)) = 10

----------------------------------------------------------------------------
(* C15 *)

\* invocations past the gate that have not inserted yet
PastGate(key) ==
    ParkedCount(parked, {e \in DOMAIN parked : e.pc = "commit" /\ CallerKey(e.req) = key})
    + (IF pc = "commit" /\ CallerKey(req) = key THEN 1 ELSE 0)

\* sends the gate has admitted under the key
AdmittedSends(key) == Cardinality({m \in messages : KeyOfMessage(m) = key}) + PastGate(key)

C15_TokenInv ==
    \A key \in SendKeys :
        /\ AdmittedSends(key) <= 15
        /\ Level(buckets, "sendMessage", key, now) = (15 - AdmittedSends(key)) * 60000

C15_GateStep ==
    pc = "gate" /\ parked' = parked /\ pc' # pc =>
        /\ pc' = "commit" <=> AdmittedSends(CallerKey(req)) < 15
        /\ pc' = "commit" => AdmittedSends(CallerKey(req))' = AdmittedSends(CallerKey(req)) + 1
        /\ pc' # "commit" => pc' = "ready" /\ req'.outcome = "RateLimited"

\* C15: however the steps of concurrent sends of one key interleave, every
\* admitted send has taken a token of its own: with no time elapsing the
\* tokens left are 15 minus the sends admitted, at most 15 sends are
\* admitted, and a send at the gate is admitted exactly when fewer than 15
\* were admitted before it, so that the k-th of a caller's successive
\* sends meets the bucket after the k-1 earlier consumptions.
C15_NoTokenTakenTwice == []C15_TokenInv /\ [][C15_GateStep]_vars

\* 13 messages are stored, two more invocations are past the gate and
\* suspended before their insert, and a third one has just been rejected
C15_Witness ==
    /\ Cardinality(messages) = 13
    /\ PastGate("u1") = 2
    /\ pc = "ready"
    /\ req.outcome = "RateLimited"

----------------------------------------------------------------------------
(* C16 *)

\* the table of quota definitions: name, rate, period in ms, capacity
QuotaTable ==
    { <<"sendMessage", 10, 60000, 15>>,
      <<"uploadFile", 5, 60000, 10>>,
      <<"deleteFile", 20, 60000, 25>>,
      <<"apiCall", 60, 60000, 80>>,
      <<"loginAttempt", 5, 60000, 5>>,
      <<"registerUser", 3, 3600000, 3>>,
      <<"sendEmail", 10, 3600000, 10>> }

\* C16: RATE_LIMIT_DEFS defines exactly the seven names of the table, each
\* as a token bucket with the table's rate, period and capacity and with
\* capacity >= rate; in every state the limiter works by these definitions:
\* a bucket exists only under a defined name and holds a whole number of
\* tokens between 0 and capacity - 1 after a call was admitted, and the
\* wrapped operation has admitted at most `capacity` calls.
C16_DefinitionsFixed ==
    /\ DOMAIN RATE_LIMIT_DEFS = {row[1] : row \in QuotaTable}
    /\ \A row \in QuotaTable :
          /\ RATE_LIMIT_DEFS[row[1]] =
                [kind |-> "token bucket", rate |-> row[2], period |-> row[3], capacity |-> row[4]]
          /\ RATE_LIMIT_DEFS[row[1]].capacity >= RATE_LIMIT_DEFS[row[1]].rate
    /\ \A p \in DOMAIN buckets :
          \E row \in QuotaTable :
              /\ row[1] = p[1]
              /\ \E k \in 0..(row[4] - 1) : buckets[p].value = k * row[3]
    /\ \E row \in QuotaTable : row[1] = operation /\ Handled("u1") <= row[4]

\* registerUser, whose capacity equals its rate, has admitted its 3 calls
\* and rejected the 4th
C16_Witness ==
    /\ operation = "registerUser"
    /\ Handled("u1") = 3
    /\ req.op = "withRateLimit"
    /\ req.outcome = "RateLimited"
    /\ buckets[<<"registerUser", "u1">>].value = 0

----------------------------------------------------------------------------
(* C17 *)

C17_FieldsStep ==
    \A m \in messages : \A n \in messages' :
        n._id = m._id =>
            /\ n.content = m.content
            /\ n.authorId = m.authorId
            /\ n.authorName = m.authorName

\* C17: no step of send, remove, deleteAny, setAdminByEmail or
\* exampleCreateMessage changes the content, the authorId or the authorName
\* of a message that is in the store: as long as a document id is in the
\* table, the three fields stored under it stay as they were inserted.
C17_MessageFieldsFrozen == [][C17_FieldsStep]_vars

\* u1's "hello" is still stored as sent, after a later send of another
\* caller and a call of setAdminByEmail
C17_Witness ==
    /\ req.op = "setAdminByEmail"
    /\ req.outcome = "success"
    /\ \E m \in messages : m._id = 1 /\ m.content = hello /\ m.authorId = "u1" /\ m.authorName = "Ann"
    /\ \E m \in messages : m._id = 2 /\ m.content = ok /\ m.authorId = Undefined
    /\ createdBy = (1 :> "send") @@ (2 :> "send")

----------------------------------------------------------------------------
(* C18 *)

HasAt(email) == \E i \in 1..Len(email) : email[i] = "@"

C18_SetAdminStep ==
    pc = "ready" /\ req'.op = "setAdminByEmail" =>
        /\ UNCHANGED <<messages, nextId, buckets, createdBy, handled, roles>>
        /\ \A a \in Accounts : AdminAccount(a._id)' = AdminAccount(a._id)
        /\ req'.outcome = IF HasAt(req'.content) THEN "success" ELSE "Invalid email address"

----------------------------------------------------------------------------
(* C19 *)

\* C19: isAdmin answers true exactly when the caller is authenticated and
\* is an admin by the whitelist or by the role field, and answers false
\* whenever nobody is authenticated.
C19_IsAdminExact ==
    req.op = "isAdmin" =>
        /\ req.outcome = "true" <=> Authenticated(req) /\ AdminAccount(req.session.user._id)
        /\ ~Authenticated(req) => req.outcome = "false"

----------------------------------------------------------------------------
(* C20 *)

C20_NavigateStep ==
    nav'.visits # nav.visits /\ nav'.asked \in ProtectedRoutes /\ ~nav.session =>
        /\ nav'.at = "/"
        /\ nav'.shown \notin {"Dashboard", "FilesPage"}

\* C20: whenever the router loads dashboard or files for a visitor who has
\* no valid session, beforeLoad redirects to '/' and the child route is not
\* rendered.
C20_GuardRedirects == [][C20_NavigateStep]_vars

----------------------------------------------------------------------------
(* C21 *)

InvalidSend(r) == r.op = "send" /\ ValidateContent(Trimmed(r.content)) # ""

C21_InvalidInv ==
    InvalidSend(req) =>
        /\ Len(req.stages) <= 1
        /\ Len(req.stages) = 1 => pc = "ready" /\ req.outcome \in ValidationErrors

C21_InvalidStep ==
    InvalidSend(req') => buckets' = buckets /\ keysUsed' = keysUsed

\* C21: a send turned away by the content checks never reaches the limiter:
\* from its arrival to its rejection every bucket stays as it was, so
\* invalid sends take no token of the caller's sendMessage bucket, and the
\* caller gets the validation error whether the bucket is empty or not.
C21_InvalidSendTakesNoToken == []C21_InvalidInv /\ [][C21_InvalidStep]_vars

\* the 15 tokens are spent on 15 messages, and a send of an empty content
\* was answered by the validation error
C21_Witness ==
    /\ SendFinished
    /\ req.content = <<>>
    /\ req.outcome = "Message cannot be empty"
    /\ Cardinality(messages) = 15
    /\ ~LimitOk(buckets, "sendMessage", "u1", now)
    /\ Handled("u1") = 0

----------------------------------------------------------------------------
(* C22 *)

WrapOrder == <<"auth", "key", "limit", "handler">>

\* the key the options ask for
KeyAsked(r) ==
    CASE r.getKey = "global" -> "global"
      [] r.getKey = "byName" -> r.session.user.name
      [] OTHER -> r.session.user._id

C22_OrderInv ==
    req.op = "withRateLimit" =>
        /\ IsPrefix(req.stages, WrapOrder)
        /\ req.outcome \in {"Authentication required", "RateLimited", "ok"}
        /\ req.outcome = "Authentication required" <=> ~Authenticated(req)
        /\ req.outcome = "Authentication required" => req.stages = <<"auth">>
        /\ req.outcome = "RateLimited" => req.stages = SubSeq(WrapOrder, 1, 3)
        /\ req.outcome = "ok" => req.stages = WrapOrder
        /\ Len(req.stages) >= 2 => req.key = KeyAsked(req)

C22_WrappedStep ==
    pc = "ready" /\ req'.op = "withRateLimit" =>
        /\ ~Authenticated(req') => buckets' = buckets /\ handled' = handled
        /\ req'.outcome = "RateLimited" =>
              /\ ~LimitOk(buckets, operation, KeyAsked(req'), now)
              /\ buckets' = buckets
              /\ handled' = handled
        /\ handled' # handled =>
              /\ Authenticated(req')
              /\ req'.outcome = "ok"
              /\ LimitOk(buckets, operation, KeyAsked(req'), now)
              /\ KeyAsked(req') \in DOMAIN handled'
              /\ handled'[KeyAsked(req')] = Handled(KeyAsked(req')) + 1
              /\ Level(buckets', operation, KeyAsked(req'), now) =
                    Level(buckets, operation, KeyAsked(req'), now) - OneToken(operation)

\* C22: an invocation of a mutation wrapped by withRateLimit or one of its
\* presets goes through requireAuth, then the key (the getKey result when
\* options give one, the user's id otherwise), then the limiter for the
\* wrapped operation, then the handler.  The handler runs only for a
\* signed-in caller the limiter has admitted, and an invocation that is not
\* authenticated takes no token.
C22_AuthKeyLimitHandler == []C22_OrderInv /\ [][C22_WrappedStep]_vars

\* u2, whose display name is empty, called a registerUser mutation keyed by
\* display name for the 4th time and was rejected under the key ""
C22_Witness ==
    /\ operation = "registerUser"
    /\ req.op = "withRateLimit"
    /\ req.session = SessionOf(u2)
    /\ req.getKey = "byName"
    /\ req.key = ""
    /\ req.outcome = "RateLimited"
    /\ Handled("") = 3
    /\ Handled("u2") = 1

----------------------------------------------------------------------------
(* C23: RequireAdmin shows its children only when the session has resolved
   with a user and the admin check has resolved to true; while either lookup
   is loading it shows the fallback; in every other resolved state it
   redirects to redirectTo *)

SessionResolved(g) == ~g.session.isPending
AdminResolved(g) == ~g.admin.isLoading
SignedInAdmin(g) ==
    /\ SessionResolved(g) /\ g.session.data.user \in Accounts
    /\ AdminResolved(g) /\ g.admin.isAdmin = "true"

C23_ChildrenOnlyForAdmin ==
    guard.component = "RequireAdmin" =>
        /\ guard.out.kind = "children" <=> SignedInAdmin(guard)
        /\ ~(SessionResolved(guard) /\ AdminResolved(guard)) =>
              guard.out = [kind |-> "fallback", to |-> Undefined,
                           node |-> IF guard.fallback = Undefined THEN "Loading..."
                                    ELSE guard.fallback]
        /\ (SessionResolved(guard) /\ AdminResolved(guard) /\ ~SignedInAdmin(guard)) =>
              guard.out = [kind |-> "navigate", to |-> guard.redirectTo, node |-> Undefined]

\* the session resolved with a user before the admin check did, and the
\* admin flag already reads true: the fallback is shown
C23_Witness ==
    /\ guard.component = "RequireAdmin"
    /\ guard.redirectTo = "/files"
    /\ guard.session = [data |-> [user |-> u1], isPending |-> FALSE]
    /\ guard.admin = [isAdmin |-> "true", isLoading |-> TRUE]
    /\ guard.out.kind = "fallback"

----------------------------------------------------------------------------
(* C24: findInDateRange(startTime, endTime) returns exactly the messages
   created at a time t with startTime <= t <= endTime, the set dateRange
   returns for the messages table *)

Between(ms, startTime, endTime) ==
    {m \in ms : startTime <= m._creationTime /\ m._creationTime <= endTime}

C24_RangeStep ==
    (req' # req /\ req'.op = "findInDateRange") =>
        /\ req'.result = Between(messages, req'.startTime, req'.endTime)
        /\ req'.result = DateRange(messages, req'.startTime, req'.endTime)

C24_RangeExact == [][C24_RangeStep]_vars

----------------------------------------------------------------------------
(* C25, C26, C27: ThemeToggle and the head script *)

\* every effect has run and no setTheme waits to be rendered
Settled == toggle.phase = "mounted" /\ toggle.effects = "none" /\ toggle.queued = Undefined

\* the page shows dark for this preference under this OS preference
WantsDark(preference, prefersDark) ==
    preference = "dark" \/ (preference = "system" /\ prefersDark)

C25_SettledInv ==
    Settled => /\ toggle.stored = toggle.theme
               /\ toggle.dark = WantsDark(toggle.theme, toggle.prefersDark)

C25_ToggleStep ==
    /\ toggle'.clicks = toggle.clicks + 1 =>
          \/ toggle.theme = "system" /\ toggle'.theme = "light"
          \/ toggle.theme = "light" /\ toggle'.theme = "dark"
          \/ toggle.theme = "dark" /\ toggle'.theme = "system"
    /\ (Settled /\ toggle.theme \in {"light", "dark"} /\ toggle'.changes = toggle.changes + 1) =>
          toggle'.dark = toggle.dark

C26_NoFlash ==
    (toggle.phase # "none" /\ toggle.clicks = 0 /\ toggle.changes = 0) =>
        toggle.dark = ScriptDark(toggle.loaded, toggle.prefersDark)

\* C27: a light or dark preference stored before the page load is, once the
\* mount effects have settled, both the component's preference and the
\* stored value
C27_StoredSurvivesMount ==
    (Settled /\ toggle.clicks = 0 /\ toggle.loaded \in {"light", "dark"}) =>
        /\ toggle.theme = toggle.loaded
        /\ toggle.stored = toggle.loaded

\* loaded with 'light' under a dark OS, mounted and settled
C27_Witness ==
    /\ Settled
    /\ toggle.clicks = 0
    /\ toggle.changes = 0
    /\ toggle.loaded = "light"
    /\ toggle.prefersDark
    /\ toggle.theme = "light"
    /\ toggle.stored = "light"
    /\ ~toggle.dark

----------------------------------------------------------------------------
(* C28, C29: handleUpload *)

InFlightUploads == Cardinality(DOMAIN upload.runs)

C28_UploadInv ==
    /\ InFlightUploads <= 1
    /\ upload.isUploading <=> InFlightUploads = 1

C28_UploadStep ==
    \* a run ends: the flags and the input are reset
    /\ upload'.ended # upload.ended =>
          /\ ~upload'.isUploading
          /\ upload'.uploadProgress = ""
          /\ upload'.input = ""
    \* a file over 10 MB: refused with no call, no run and no flag
    /\ (upload'.toast = "File too large. Maximum size is 10MB." /\ upload'.toast # upload.toast) =>
          /\ upload'.calls = upload.calls
          /\ upload'.runs = upload.runs
          /\ ~upload'.isUploading
          /\ upload'.input = ""
    \* a run starts only on a file of at most 10 MB
    /\ upload'.started # upload.started =>
          \E id \in DOMAIN upload'.runs \ DOMAIN upload.runs :
              upload'.runs[id].file.size <= 10485760

\* C28: every run of handleUpload ends with isUploading false,
\* uploadProgress empty and the input cleared; a file over 10 MB is refused
\* before any network call and never sets isUploading; at most one upload is
\* in flight
C28_UploadEndsClean == []C28_UploadInv /\ [][C28_UploadStep]_vars

\* a first run failed at saveFile, a file of 10 MB + 1 was refused since
C28_Witness ==
    /\ upload.ended = {[run |-> 1, blob |-> 1]}
    /\ upload.files = {}
    /\ upload.toast = "File too large. Maximum size is 10MB."
    /\ upload.calls = 3
    /\ ~upload.isUploading
    /\ upload.uploadProgress = ""
    /\ upload.input = ""

\* C29: once a run of handleUpload has ended, every blob it stored has a
\* `files` record referencing it
C29_NoOrphanBlob ==
    \A e \in upload.ended :
        e.blob # 0 => \E f \in upload.files : f.storageId = e.blob

----------------------------------------------------------------------------
(* C30: signOut *)

Reloaded(log) == \E i \in 1..Len(log) : log[i] = "reload"

CallerOnSuccess(p) == Prop(Prop(p.opts, "fetchOptions"), "onSuccess")

\* every option but fetchOptions, and every fetch option but onSuccess, is
\* handed to _signOut as the caller gave it
PassedThrough(p) ==
    /\ DOMAIN p.passed = DOMAIN Spread(p.opts) \cup {"fetchOptions"}
    /\ \A k \in DOMAIN Spread(p.opts) \ {"fetchOptions"} : p.passed[k] = p.opts[k]
    /\ DOMAIN p.passed.fetchOptions =
          DOMAIN Spread(Prop(p.opts, "fetchOptions")) \cup {"onSuccess"}
    /\ \A k \in DOMAIN Spread(Prop(p.opts, "fetchOptions")) \ {"onSuccess"} :
          p.passed.fetchOptions[k] = p.opts.fetchOptions[k]

\* C30: the page is reloaded exactly when the sign-out request succeeds, the
\* caller's onSuccess, if any, having run first; a failed request reloads
\* nothing; the caller's other options reach _signOut unchanged
C30_ReloadIffSuccess ==
    /\ page.request = "succeeded" =>
          page.log = IF IsAbsent(CallerOnSuccess(page)) THEN <<"reload">>
                     ELSE <<"onSuccess", "reload">>
    /\ page.request = "failed" => ~Reloaded(page.log)
    /\ page.request # "idle" => PassedThrough(page)

====
